---------------------------- MODULE Spec2Model ----------------------------
(***************************************************************************)
(* A model of the lampatv-proxy reverse proxy.                             *)
(*                                                                         *)
(*   SpecPool    : the proxy pool (services/proxy_manager.py), its         *)
(*                 operations taken statement by statement and run by      *)
(*                 request tasks on one asyncio event loop.                *)
(*   SpecReq     : one call of RequestProcessor.process_request.           *)
(*   SpecStream  : one call of VideoStreamer.stream_video and the stream   *)
(*                 generator it returns.                                   *)
(*   SpecHandler : one call of RequestHandler.handle_request, the inbound  *)
(*                 path decoded as url_utils decodes it.                   *)
(*   SpecProbe   : one call of ContentInfoGetter.get_content_info.         *)
(*   SpecCodec   : the path encoding, base64 taken character by character. *)
(*   SpecRouter   : one inbound request through the catch-all route.        *)
(*   SpecDispatch : one process_content call of the content dispatcher.    *)
(*   SpecStartup : the pool filled from the configured proxy list.          *)
(*   SpecAttempt : one upstream attempt and its reports to the pool.        *)
(*   SpecClients : one probe, one generic request or one stream, from the  *)
(*                 acquisition of its upstream clients to their release.   *)
(***************************************************************************)
EXTENDS Integers, Sequences, FiniteSets, TLC

VARIABLES
    \* ---- proxy pool (ProxyManager) ----
    working,      \* ProxyManager._working_proxies : list of endpoints
    stats,        \* ProxyManager._proxy_stats     : endpoint -> {success, failures}
    pc,           \* per task: the statement of the pool operation it is at
    arg,          \* per task: the `proxy` argument of the running operation
    op,           \* per task: the operation the task called
    loc,          \* per task: the value read by the running read-modify-write
    err,          \* per task: an exception escaped a pool operation
    running,      \* the task that holds the event loop, or NoTask
    calls,        \* history per endpoint: added, fail() calls counted, explicitly removed
    last,         \* the pool call that returned last: what it was called with,
                  \* whether it found the endpoint in the pool, what it returned
    \* ---- configuration (AppConfig) ----
    use_proxy,    \* config.use_proxy
    max_redirects,\* config.max_redirects
    max_range_size,    \* config.max_range_size
    stream_chunk_size, \* config.stream_chunk_size
    \* ---- one call of RequestProcessor.process_request ----
    rpc,          \* "idle", "await" (in `await client.request`), "yielded", "done"
    depth,        \* process_request frames inside their `async with client` block
    redirect_count, \* the redirect_count the last _handle_redirect call ran with
    followed,     \* redirects followed by this call
    attempts,     \* per upstream attempt: proxy selected, outcome, report made to the pool
    out,          \* the ProxyResponse objects yielded to the caller
    raised,       \* an exception escaped process_request
    \* ---- one call of VideoStreamer.stream_video and its stream generator ----
    spc,          \* "idle", "headers" (StreamingResponse returned), "await", "body", "done"
    sreq,         \* inputs: the client's Range header and the probed file_size
    sresp,        \* start_byte, end_byte, range_requested and the response framing
    upstream,     \* the source's answer to the streaming GET: status, body cut short
    gen,          \* the generator's frame: proxy, expected_bytes, bytes_streamed, ...
    \* ---- one call of RequestHandler.handle_request ----
    hpc,          \* "idle", "dispatch" (in `await process_content`), "done"
    hreq,         \* the inbound path
    hdec,         \* what decoding the path gave: error, target URL, headers, and
                  \* the (params, URL segments) parse_encoded_data returned
    hres,         \* what handle_request returned or raised
    \* ---- one call of ContentInfoGetter.get_content_info ----
    ppc,          \* "idle", "await" (a strategy's request is in flight), "done"
    preq,         \* inputs: use_head
    pstrat,       \* the strategy in flight: 0 HEAD, 1..3 the GET strategies
    pclient,      \* the client of the strategy in flight: its proxy, open or closed
    plog,         \* history: per strategy tried, its outcome and the report to the pool
    pres,         \* the ContentInfoResponse returned
    \* ---- one block encoded by a client and decoded by the handler ----
    cpc,          \* "idle", "encoded", "decoded"
    cin,          \* the (params, url) the client encodes
    cenc,         \* the encoded block: a string of base64 characters
    cout,         \* what decoding and parsing the block gave
    \* ---- one inbound request in the route (proxy_request) ----
    tpc,          \* "idle", "body", "handler", "done"
    treq,         \* the inbound request: path, method, content type, body size
    tres,         \* the response: its status, and whether handle_request ran
    max_request_size,
    \* ---- one process_content call of the content dispatcher ----
    dpc,          \* "idle", "probe", "m3u8", "stream", "request", "done"
    dreq,         \* the method and whether the target URL looks like a video
    dinfo,        \* what _content_info returned
    dcalls,       \* the components called, in order
    dres,         \* what process_content gave its caller
    \* ---- application startup ----
    upc,          \* "idle", "validating", "adding", "started"
    proxy_list,   \* config.proxy_list
    pending,      \* the entries the running loop has still to visit
    validated,    \* working_proxies of validate_proxies
    tested,       \* the proxies the test clients were made for
    \* ---- one upstream attempt ----
    apc,          \* "idle", "await", "redirect", "body", "yielded", "closing", "done"
    aatt,         \* the component that makes the attempt and the proxy it selected
    areports      \* the reports made to the pool for that proxy, in order

poolTaskVars == <<pc, arg, op, loc, err, running, calls, last>>
cfgVars == <<use_proxy, max_redirects, max_range_size, stream_chunk_size>>
reqVars == <<rpc, depth, redirect_count, followed, attempts, out, raised>>
strVars == <<spc, sreq, sresp, upstream, gen>>
hndVars == <<hpc, hreq, hdec, hres>>
prbVars == <<ppc, preq, pstrat, pclient, plog, pres>>
cdcVars == <<cpc, cin, cenc, cout>>
rtrVars == <<tpc, treq, tres, max_request_size>>
dspVars == <<dpc, dreq, dinfo, dcalls, dres>>
stuVars == <<upc, proxy_list, pending, validated, tested>>
attVars == <<apc, aatt, areports>>

vars == <<working, stats, poolTaskVars, cfgVars, reqVars, strVars, hndVars, prbVars,
          cdcVars, rtrVars, dspVars, stuVars, attVars>>

\* what each specification leaves alone
NotPool == <<cfgVars, reqVars, strVars, hndVars, prbVars, cdcVars,
    rtrVars, dspVars, stuVars, attVars>>
NotReq == <<poolTaskVars, strVars, hndVars, prbVars, cdcVars,
    rtrVars, dspVars, stuVars, attVars>>
NotStream == <<poolTaskVars, reqVars, hndVars, prbVars, cdcVars,
    rtrVars, dspVars, stuVars, attVars>>
NotHandler == <<working, stats, poolTaskVars, cfgVars, reqVars, strVars, prbVars, cdcVars,
    rtrVars, dspVars, stuVars, attVars>>
NotProbe == <<poolTaskVars, reqVars, strVars, hndVars, cdcVars,
    rtrVars, dspVars, stuVars, attVars>>
NotCodec == <<working, stats, poolTaskVars, cfgVars, reqVars, strVars, hndVars, prbVars,
    rtrVars, dspVars, stuVars, attVars>>
NotRouter == <<working, stats, poolTaskVars, cfgVars, reqVars, strVars, hndVars, prbVars,
    cdcVars, dspVars, stuVars, attVars>>
NotStartup == <<poolTaskVars, reqVars, strVars, hndVars, prbVars, cdcVars, rtrVars,
    dspVars, attVars>>
NotAttempt == <<poolTaskVars, reqVars, strVars, hndVars, prbVars, cdcVars, rtrVars,
    dspVars, stuVars>>
NotDispatch == <<working, stats, poolTaskVars, cfgVars, reqVars, strVars, hndVars, prbVars,
    cdcVars, rtrVars, stuVars, attVars>>

-----------------------------------------------------------------------------
(* Bounds of the model *)

MaxSuccess == 1          \* succeed() is not called on an endpoint beyond this count
MaxHops == 3             \* the upstream answers one request with at most this many redirects
MaxRedirectsCfg == 2     \* config.max_redirects is drawn from 0..MaxRedirectsCfg
MaxFile == 3             \* probed file sizes are 0..MaxFile (0: unknown)
MaxBody == 3             \* the source sends bodies of 0..MaxBody bytes
MaxRangeCfg == 2         \* config.max_range_size is drawn from 1..MaxRangeCfg
MaxChunkCfg == 2         \* config.stream_chunk_size is drawn from 1..MaxChunkCfg
MaxTextLen == 3          \* a decoded block or a literal path has 1..MaxTextLen '/'-separated parts
MaxExtra == 1            \* an encoded path carries 0..MaxExtra segments after the block
MaxRequestBody == 3      \* inbound bodies have 0..MaxRequestBody bytes
MaxRequestCfg == 2       \* config.max_request_size is drawn from 1..MaxRequestCfg
MaxProxyList == 2        \* config.proxy_list has 0..MaxProxyList entries

-----------------------------------------------------------------------------
(* Values *)

Proxies == {"p1", "p2"}
NoProxy == ""                       \* the empty string / None: `not proxy` is true
ProxyArgs == Proxies \cup {NoProxy}
Tasks == {"t1", "t2"}
NoTask == "none"

Range(s) == {s[i] : i \in 1..Len(s)}

RECURSIVE RemoveFirst(_, _)
\* list.remove(x): drops the first occurrence of x
RemoveFirst(s, x) ==
    IF s = <<>> THEN <<>>
    ELSE IF Head(s) = x THEN Tail(s)
    ELSE <<Head(s)>> \o RemoveFirst(Tail(s), x)

-----------------------------------------------------------------------------
(* ProxyManager: the data operations, one per statement *)

\* self._working_proxies.append(proxy)
WorkingAppend(w, p) == Append(w, p)

\* self._proxy_stats[proxy] = {'success': 0, 'failures': 0}
StatsInit(s, p) == [q \in DOMAIN s \cup {p} |->
                      IF q = p THEN [success |-> 0, failures |-> 0] ELSE s[q]]

\* self._proxy_stats[proxy]['success'] = v
StatsSetSuccess(s, p, v) == [s EXCEPT ![p].success = v]

\* self._proxy_stats[proxy]['failures'] = v
StatsSetFailures(s, p, v) == [s EXCEPT ![p].failures = v]

\* self._working_proxies.remove(proxy)
WorkingRemove(w, p) == RemoveFirst(w, p)

StatsKeep(s, p) == s
\* del self._proxy_stats[proxy]
StatsDelete(s, p) == [q \in DOMAIN s \ {p} |-> s[q]]

TooManyFailuresOffByOne(failures) == failures >= 5
\* if failures > 5: remove the proxy
TooManyFailures(failures) == failures > 5

\* an add that takes every endpoint for a new one
NeverWorking(w, p) == FALSE

\* add_proxy: `proxy not in self._working_proxies`, negated
AlreadyWorking(w, p) == p \in Range(w)

\* a pick among every endpoint ever configured
PickAnyKnown(w) == Proxies

\* get_random_proxy: the values random.choice may return; None for no entry
get_random_proxy(w) == IF Len(w) = 0 THEN {NoProxy} ELSE Range(w)

SuspendsAnywhere(at) == TRUE
\* The statements at which a task gives the event loop back.  The pool
\* operations await nothing but remove_proxy, a coroutine without I/O, so a
\* task is suspended only between operations (awaiting the network).
Suspends(at) == at = "idle"

-----------------------------------------------------------------------------
(* SpecPool: tasks calling the pool operations *)

\* no process_request call is running
ReqIdle ==
    /\ rpc = "idle"
    /\ depth = 0
    /\ redirect_count = 0
    /\ followed = 0
    /\ attempts = <<>>
    /\ out = <<>>
    /\ raised = FALSE

NoRange == [kind |-> "absent", start |-> 0, end |-> -1]
NoUpstream == [status |-> 0, truncated |-> FALSE]
NoGen == [proxy |-> NoProxy, mark |-> "none", expected_bytes |-> 0,
          bytes_streamed |-> 0, remaining |-> 0, client_open |-> FALSE, ended |-> "no"]
NoResp == [start_byte |-> 0, end_byte |-> 0, range_requested |-> FALSE,
           out_range |-> <<>>, status |-> 0, content_length |-> -1, content_range |-> <<>>]

\* no stream_video call is running
StreamIdle ==
    /\ spc = "idle"
    /\ sreq = [range_header |-> NoRange, file_size |-> 0]
    /\ sresp = NoResp
    /\ upstream = NoUpstream
    /\ gen = NoGen

NoPath == [kind |-> "none", block |-> "none", text |-> <<>>, extra |-> <<>>,
           headers |-> <<>>]
NoDecoded == [error |-> "none", netloc |-> "", params |-> <<>>, headers |-> <<>>,
              tail |-> <<>>]
NoResult == [kind |-> "none", status |-> 0]

\* no handle_request call is running
HandlerIdle ==
    /\ hpc = "idle"
    /\ hreq = NoPath
    /\ hdec = NoDecoded
    /\ hres = NoResult

NoContentInfo == [method_used |-> "none", status_code |-> 0, content_length |-> 0]

\* no get_content_info call is running
ProbeIdle ==
    /\ ppc = "idle"
    /\ preq = [use_head |-> TRUE]
    /\ pstrat = 0
    /\ pclient = [proxy |-> NoProxy, open |-> FALSE]
    /\ plog = <<>>
    /\ pres = NoContentInfo

\* no block is being encoded or decoded
CodecIdle ==
    /\ cpc = "idle"
    /\ cin = [params |-> <<>>, url |-> <<>>]
    /\ cenc = <<>>
    /\ cout = [error |-> "none", params |-> <<>>, url |-> <<>>]

\* no inbound request is in the route
NoInbound ==
    /\ tpc = "idle"
    /\ treq = [path |-> "none", method |-> "none", content_type |-> "none", body |-> 0]
    /\ tres = [status |-> 0, handled |-> FALSE]

RouterIdle ==
    /\ NoInbound
    /\ max_request_size = 1

NoContentProbed == [ok |-> FALSE, content_type |-> "none", big_ranged |-> FALSE]

\* the dispatcher is not processing anything
DispatchIdle ==
    /\ dpc = "idle"
    /\ dreq = [method |-> "none", video_url |-> FALSE]
    /\ dinfo = NoContentProbed
    /\ dcalls = <<>>
    /\ dres = [kind |-> "none", from |-> "none"]

\* the application has not started
StartupIdle ==
    /\ upc = "idle"
    /\ proxy_list = <<>>
    /\ pending = <<>>
    /\ validated = <<>>
    /\ tested = <<>>

\* no attempt is under way
AttemptIdle ==
    /\ apc = "idle"
    /\ aatt = [component |-> "none", proxy |-> NoProxy]
    /\ areports = <<>>

\* no pool call has returned yet
NoCall == [op |-> "none", arg |-> NoProxy, found |-> FALSE, value |-> "None"]

InitCalls == [p \in Proxies |-> [added |-> FALSE, fails |-> 0, removed |-> FALSE]]

InitPool ==
    /\ working = <<>>
    /\ stats = [p \in {} |-> [success |-> 0, failures |-> 0]]
    /\ pc = [t \in Tasks |-> "idle"]
    /\ arg = [t \in Tasks |-> NoProxy]
    /\ op = [t \in Tasks |-> "none"]
    /\ loc = [t \in Tasks |-> 0]
    /\ err = [t \in Tasks |-> FALSE]
    /\ running = NoTask
    /\ calls = InitCalls
    /\ last = NoCall
    /\ use_proxy = TRUE
    /\ max_redirects = 5
    /\ max_range_size = 1
    /\ stream_chunk_size = 1
    /\ ReqIdle
    /\ StreamIdle
    /\ HandlerIdle
    /\ ProbeIdle
    /\ CodecIdle
    /\ RouterIdle
    /\ DispatchIdle
    /\ StartupIdle
    /\ AttemptIdle

\* The event loop runs one task at a time; a task keeps it until it suspends.
MayRun(t) == running = NoTask \/ running = t

\* A task moves to statement `at`; back at "idle" its frame is gone.
Goto(t, at, v) ==
    /\ pc' = [pc EXCEPT ![t] = at]
    /\ running' = IF Suspends(at) THEN NoTask ELSE t
    /\ loc' = [loc EXCEPT ![t] = IF at = "idle" THEN 0 ELSE v]
    /\ arg' = IF at = "idle" THEN [arg EXCEPT ![t] = NoProxy] ELSE arg
    /\ op' = IF at = "idle" THEN [op EXCEPT ![t] = "none"] ELSE op

\* The call of task t returns: `found` tells whether it found its endpoint
\* in the pool, `value` is the value returned.
Returned(t, found, value) ==
    last' = [op |-> op[t], arg |-> arg[t], found |-> found, value |-> value]

\* A request task, resumed after network I/O, calls a pool operation.
Call(t) ==
    /\ pc[t] = "idle"
    /\ MayRun(t)
    /\ \E o \in {"add", "succeed", "fail", "remove", "pick"}, p \in ProxyArgs :
        /\ o = "succeed" /\ p \in DOMAIN stats => stats[p].success < MaxSuccess
        /\ o = "pick" => p = NoProxy
        /\ op' = [op EXCEPT ![t] = o]
        /\ arg' = [arg EXCEPT ![t] = p]
        /\ pc' = [pc EXCEPT ![t] = CASE o = "add" -> "add_check"
                                     [] o = "succeed" -> "succ_read"
                                     [] o = "fail" -> "fail_read"
                                     [] o = "remove" -> "rm_check"
                                     [] o = "pick" -> "pick"]
        /\ running' = IF Suspends(pc'[t]) THEN NoTask ELSE t
    /\ UNCHANGED <<working, stats, loc, err, calls, last>>
    /\ UNCHANGED NotPool

\* add_proxy: `if not proxy: return False`; `if proxy not in self._working_proxies`
AddCheck(t) ==
    /\ pc[t] = "add_check"
    /\ MayRun(t)
    /\ IF arg[t] # NoProxy /\ ~AlreadyWorking(working, arg[t])
       THEN Goto(t, "add_append", 0) /\ UNCHANGED last
       ELSE Goto(t, "idle", 0) /\ Returned(t, arg[t] \in Range(working), "False")
    /\ UNCHANGED <<working, stats, err, calls>>
    /\ UNCHANGED NotPool

\* add_proxy: self._working_proxies.append(proxy)
AddAppend(t) ==
    /\ pc[t] = "add_append"
    /\ MayRun(t)
    /\ working' = WorkingAppend(working, arg[t])
    /\ Goto(t, "add_stats", 0)
    /\ UNCHANGED <<stats, err, calls, last>>
    /\ UNCHANGED NotPool

\* add_proxy: self._proxy_stats[proxy] = {'success': 0, 'failures': 0}; return True
AddStats(t) ==
    /\ pc[t] = "add_stats"
    /\ MayRun(t)
    /\ stats' = StatsInit(stats, arg[t])
    /\ calls' = [calls EXCEPT ![arg[t]] = [added |-> TRUE, fails |-> 0, removed |-> FALSE]]
    /\ Goto(t, "idle", 0)
    /\ Returned(t, FALSE, "True")
    /\ UNCHANGED <<working, err>>
    /\ UNCHANGED NotPool

\* a mark_proxy_success without the `proxy in self._proxy_stats` test
SuccReadUnguarded(t) ==
    /\ pc[t] = "succ_read"
    /\ MayRun(t)
    /\ IF arg[t] # NoProxy
       THEN Goto(t, "succ_write", 0) /\ UNCHANGED last
       ELSE Goto(t, "idle", 0) /\ Returned(t, FALSE, "None")
    /\ UNCHANGED <<working, stats, err, calls>>
    /\ UNCHANGED NotPool

\* mark_proxy_success: `if proxy and proxy in self._proxy_stats:` and the read
\* of `self._proxy_stats[proxy]['success'] += 1`
SuccRead(t) ==
    /\ pc[t] = "succ_read"
    /\ MayRun(t)
    /\ IF arg[t] # NoProxy /\ arg[t] \in DOMAIN stats
       THEN Goto(t, "succ_write", stats[arg[t]].success) /\ UNCHANGED last
       ELSE Goto(t, "idle", 0) /\ Returned(t, FALSE, "None")
    /\ UNCHANGED <<working, stats, err, calls>>
    /\ UNCHANGED NotPool

\* mark_proxy_success: the write of `+= 1` (KeyError if the record is gone)
SuccWrite(t) ==
    /\ pc[t] = "succ_write"
    /\ MayRun(t)
    /\ IF arg[t] \in DOMAIN stats
       THEN /\ stats' = StatsSetSuccess(stats, arg[t], loc[t] + 1)
            /\ err' = err
       ELSE /\ stats' = stats
            /\ err' = [err EXCEPT ![t] = TRUE]
    /\ Goto(t, "idle", 0)
    /\ Returned(t, arg[t] \in DOMAIN stats, "None")
    /\ UNCHANGED <<working, calls>>
    /\ UNCHANGED NotPool

\* mark_proxy_failure: `if not proxy: return`; `if proxy in self._proxy_stats:`
\* and the read of `self._proxy_stats[proxy]['failures'] += 1`
FailRead(t) ==
    /\ pc[t] = "fail_read"
    /\ MayRun(t)
    /\ IF arg[t] # NoProxy /\ arg[t] \in DOMAIN stats
       THEN Goto(t, "fail_write", stats[arg[t]].failures) /\ UNCHANGED last
       ELSE Goto(t, "idle", 0) /\ Returned(t, FALSE, "None")
    /\ UNCHANGED <<working, stats, err, calls>>
    /\ UNCHANGED NotPool

\* mark_proxy_failure: the write of `+= 1` and
\* `failures = self._proxy_stats[proxy]['failures']` (KeyError if the record is gone)
FailWrite(t) ==
    /\ pc[t] = "fail_write"
    /\ MayRun(t)
    /\ IF arg[t] \in DOMAIN stats
       THEN /\ stats' = StatsSetFailures(stats, arg[t], loc[t] + 1)
            /\ calls' = [calls EXCEPT ![arg[t]].fails = @ + 1]
            /\ err' = err
            /\ Goto(t, "fail_check", loc[t] + 1)
            /\ UNCHANGED last
       ELSE /\ stats' = stats
            /\ calls' = calls
            /\ err' = [err EXCEPT ![t] = TRUE]
            /\ Goto(t, "idle", 0)
            /\ Returned(t, FALSE, "None")
    /\ UNCHANGED <<working>>
    /\ UNCHANGED NotPool

\* mark_proxy_failure: `if failures > 5: await self.remove_proxy(proxy)`
FailCheck(t) ==
    /\ pc[t] = "fail_check"
    /\ MayRun(t)
    /\ IF TooManyFailures(loc[t])
       THEN Goto(t, "rm_check", loc[t]) /\ UNCHANGED last
       ELSE Goto(t, "idle", 0) /\ Returned(t, TRUE, "None")
    /\ UNCHANGED <<working, stats, err, calls>>
    /\ UNCHANGED NotPool

\* remove_proxy: `if proxy in self._working_proxies:` ... else `return False`
RemoveCheck(t) ==
    /\ pc[t] = "rm_check"
    /\ MayRun(t)
    /\ IF arg[t] \in Range(working)
       THEN Goto(t, "rm_list", 0) /\ UNCHANGED last
       ELSE Goto(t, "idle", 0)
            /\ Returned(t, op[t] = "fail", IF op[t] = "remove" THEN "False" ELSE "None")
    /\ UNCHANGED <<working, stats, err, calls>>
    /\ UNCHANGED NotPool

\* remove_proxy: self._working_proxies.remove(proxy) (ValueError if it is gone)
RemoveList(t) ==
    /\ pc[t] = "rm_list"
    /\ MayRun(t)
    /\ IF arg[t] \in Range(working)
       THEN /\ working' = WorkingRemove(working, arg[t])
            /\ calls' = IF op[t] = "remove"
                        THEN [calls EXCEPT ![arg[t]] = [added |-> TRUE, fails |-> 0, removed |-> TRUE]]
                        ELSE calls
            /\ err' = err
            /\ Goto(t, "rm_stats", 0)
            /\ UNCHANGED last
       ELSE /\ working' = working
            /\ calls' = calls
            /\ err' = [err EXCEPT ![t] = TRUE]
            /\ Goto(t, "idle", 0)
            /\ Returned(t, op[t] = "fail", "None")
    /\ UNCHANGED <<stats>>
    /\ UNCHANGED NotPool

\* remove_proxy: `if proxy in self._proxy_stats: del self._proxy_stats[proxy]`; return True
RemoveStats(t) ==
    /\ pc[t] = "rm_stats"
    /\ MayRun(t)
    /\ stats' = IF arg[t] \in DOMAIN stats THEN StatsDelete(stats, arg[t]) ELSE stats
    /\ Goto(t, "idle", 0)
    /\ Returned(t, TRUE, IF op[t] = "remove" THEN "True" ELSE "None")
    /\ UNCHANGED <<working, err, calls>>
    /\ UNCHANGED NotPool

\* get_random_proxy: None when the working list is empty, else one of its entries
Pick(t) ==
    /\ pc[t] = "pick"
    /\ MayRun(t)
    /\ \E p \in get_random_proxy(working) :
        last' = [op |-> "pick", arg |-> NoProxy, found |-> p # NoProxy,
                 value |-> IF p = NoProxy THEN "None" ELSE p]
    /\ Goto(t, "idle", 0)
    /\ UNCHANGED <<working, stats, err, calls>>
    /\ UNCHANGED NotPool

NextPool ==
    \E t \in Tasks :
        \/ Call(t)
        \/ AddCheck(t)
        \/ AddAppend(t)
        \/ AddStats(t)
        \/ SuccRead(t)
        \/ SuccWrite(t)
        \/ FailRead(t)
        \/ FailWrite(t)
        \/ FailCheck(t)
        \/ RemoveCheck(t)
        \/ RemoveList(t)
        \/ RemoveStats(t)
        \/ Pick(t)

SpecPool == InitPool /\ [][NextPool]_vars

-----------------------------------------------------------------------------
(* ProxyManager: the operations as the request components see them.  On the *)
(* event loop each runs to completion (see Suspends), so a caller sees the  *)
(* composition of its statements.                                           *)

\* remove_proxy(proxy)
remove_proxy(w, s, p) ==
    IF p \in Range(w)
    THEN [working |-> WorkingRemove(w, p),
          stats |-> IF p \in DOMAIN s THEN StatsDelete(s, p) ELSE s]
    ELSE [working |-> w, stats |-> s]

\* mark_proxy_success(proxy)
mark_proxy_success(w, s, p) ==
    IF p # NoProxy /\ p \in DOMAIN s
    THEN [working |-> w, stats |-> StatsSetSuccess(s, p, s[p].success + 1)]
    ELSE [working |-> w, stats |-> s]

\* a pool that takes no note of a failure
FailureNotCounted(w, s, p) == [working |-> w, stats |-> s]

\* mark_proxy_failure(proxy)
mark_proxy_failure(w, s, p) ==
    IF p = NoProxy THEN [working |-> w, stats |-> s]
    ELSE IF p \in DOMAIN s
    THEN LET s1 == StatsSetFailures(s, p, s[p].failures + 1)
         IN  IF TooManyFailures(s1[p].failures)
             THEN remove_proxy(w, s1, p)
             ELSE [working |-> w, stats |-> s1]
    ELSE [working |-> w, stats |-> s]

\* DefaultProxyGenerator.has_proxies()
has_proxies(use, w) == use /\ Len(w) > 0

\* DefaultProxyGenerator.get_proxy(): random.choice(working_proxies), or None
get_proxy(use, w) == IF has_proxies(use, w) THEN Range(w) ELSE {NoProxy}

\* the pool as startup leaves it: validated endpoints added, counters zero
StartupPools == {<<>>, <<"p1">>, <<"p2">>, <<"p1", "p2">>, <<"p2", "p1">>}
StartupStats(w) == [p \in Range(w) |-> [success |-> 0, failures |-> 0]]

PoolTasksIdle ==
    /\ pc = [t \in Tasks |-> "idle"]
    /\ arg = [t \in Tasks |-> NoProxy]
    /\ op = [t \in Tasks |-> "none"]
    /\ loc = [t \in Tasks |-> 0]
    /\ err = [t \in Tasks |-> FALSE]
    /\ running = NoTask
    /\ calls = InitCalls
    /\ last = NoCall

-----------------------------------------------------------------------------
(* SpecReq: RequestProcessor.process_request, one call at a time, against   *)
(* an upstream that answers, redirects, times out or fails.                 *)

RedirectStatuses == {301, 302, 303, 307, 308}
FinalStatuses == {200, 404, 500}

\* a ProxyResponse as far as the claims read it
ProxyResponse(st, e) == [status |-> st, error |-> e]

Attempt(p) == [proxy |-> p, outcome |-> "pending", mark |-> "none"]

\* the last attempt gets its outcome and the report made to the pool
Settle(as, o, m) ==
    [as EXCEPT ![Len(as)] = [proxy |-> as[Len(as)].proxy, outcome |-> o, mark |-> m]]

CurrentProxy == attempts[Len(attempts)].proxy

\* what _handle_redirect does with (redirect_count, Location present)
HandleRedirect(rc, has_location) ==
    IF rc >= max_redirects THEN "too_many_redirects"
    ELSE IF ~has_location THEN "no_location"
    ELSE "follow"

\* the redirect_count process_request hands to _handle_redirect: the call
\* passes none, so the parameter's default
RedirectCountPassed == 0

InitReq ==
    /\ \E w \in StartupPools : working = w /\ stats = StartupStats(w)
    /\ use_proxy \in BOOLEAN
    /\ max_redirects \in 0..MaxRedirectsCfg
    /\ max_range_size = 1
    /\ stream_chunk_size = 1
    /\ ReqIdle
    /\ StreamIdle
    /\ HandlerIdle
    /\ ProbeIdle
    /\ CodecIdle
    /\ RouterIdle
    /\ DispatchIdle
    /\ StartupIdle
    /\ AttemptIdle
    /\ PoolTasksIdle

\* the `except Exception` clause: mark_failure if a proxy was selected, yield 500
UnexpectedError(o) ==
    LET p == CurrentProxy
        pool == mark_proxy_failure(working, stats, p)
    IN  /\ working' = pool.working
        /\ stats' = pool.stats
        /\ attempts' = Settle(attempts, o, IF p # NoProxy THEN "failure" ELSE "none")
        /\ out' = Append(out, ProxyResponse(500, "Unexpected error"))
        /\ rpc' = "yielded"
        /\ depth' = depth - 1

\* process_request is entered with an empty URL: _normalize_url raises
\* outside the try block
StartEmptyUrl ==
    /\ rpc = "idle"
    /\ raised' = TRUE
    /\ rpc' = "done"
    /\ UNCHANGED <<working, stats, cfgVars, depth, redirect_count, followed, attempts, out>>
    /\ UNCHANGED NotReq

\* process_request is entered with a URL without hostname: ValueError inside
\* the try block, before a proxy is selected
StartNoHost ==
    /\ rpc = "idle"
    /\ attempts' = Append(attempts, [proxy |-> NoProxy, outcome |-> "invalid_target", mark |-> "none"])
    /\ out' = Append(out, ProxyResponse(500, "Unexpected error"))
    /\ rpc' = "done"
    /\ UNCHANGED <<working, stats, cfgVars, depth, redirect_count, followed, raised>>
    /\ UNCHANGED NotReq

\* process_request is entered with a valid target: a proxy is selected, the
\* client is opened and the request is sent
Start ==
    /\ rpc = "idle"
    /\ \E p \in get_proxy(use_proxy, working) :
        attempts' = Append(attempts, Attempt(p))
    /\ rpc' = "await"
    /\ depth' = 1
    /\ UNCHANGED <<working, stats, cfgVars, redirect_count, followed, out, raised>>
    /\ UNCHANGED NotReq

\* the upstream answers with a status that is no redirect
Response ==
    /\ rpc = "await"
    /\ \E st \in FinalStatuses :
        LET p == CurrentProxy
            pool == mark_proxy_success(working, stats, p)
        IN  /\ p \in DOMAIN stats => stats[p].success < MaxSuccess
            /\ working' = pool.working
            /\ stats' = pool.stats
            /\ attempts' = Settle(attempts, "response", IF p # NoProxy THEN "success" ELSE "none")
            /\ out' = Append(out, ProxyResponse(st, "none"))
    /\ rpc' = "yielded"
    /\ depth' = depth
    /\ UNCHANGED <<cfgVars, redirect_count, followed, raised>>
    /\ UNCHANGED NotReq

\* the upstream answers 301/302/303/307/308 and _handle_redirect re-enters
\* process_request with the Location
RedirectFollow ==
    /\ rpc = "await"
    /\ followed < MaxHops
    /\ \E st \in RedirectStatuses :
        HandleRedirect(RedirectCountPassed, TRUE) = "follow"
    /\ redirect_count' = RedirectCountPassed
    /\ followed' = followed + 1
    /\ \E valid \in BOOLEAN :
        IF valid
        THEN \E p \in get_proxy(use_proxy, working) :
                /\ attempts' = Append(Settle(attempts, "redirect", "none"), Attempt(p))
                /\ out' = out
                /\ rpc' = "await"
                /\ depth' = depth + 1
        ELSE /\ attempts' = Append(Settle(attempts, "redirect", "none"),
                                   [proxy |-> NoProxy, outcome |-> "invalid_target", mark |-> "none"])
             /\ out' = Append(out, ProxyResponse(500, "Unexpected error"))
             /\ rpc' = "yielded"
             /\ depth' = depth
    /\ UNCHANGED <<working, stats, cfgVars, raised>>
    /\ UNCHANGED NotReq

\* the upstream answers with a redirect and _handle_redirect raises
\* ("Too many redirects" or no Location): caught by `except Exception`
RedirectRefused ==
    /\ rpc = "await"
    /\ \E st \in RedirectStatuses, has_location \in BOOLEAN :
        LET h == HandleRedirect(RedirectCountPassed, has_location)
        IN  /\ h # "follow"
            /\ UnexpectedError(h)
    /\ redirect_count' = RedirectCountPassed
    /\ UNCHANGED <<cfgVars, followed, raised>>
    /\ UNCHANGED NotReq

\* httpx.TimeoutException: 408, nothing reported to the pool
Timeout ==
    /\ rpc = "await"
    /\ attempts' = Settle(attempts, "timeout", "none")
    /\ out' = Append(out, ProxyResponse(408, "Request timeout"))
    /\ rpc' = "yielded"
    /\ depth' = depth - 1
    /\ UNCHANGED <<working, stats, cfgVars, redirect_count, followed, raised>>
    /\ UNCHANGED NotReq

\* httpx.RequestError: mark_failure if a proxy was selected, 500
RequestError ==
    /\ rpc = "await"
    /\ LET p == CurrentProxy
           pool == mark_proxy_failure(working, stats, p)
       IN  /\ working' = pool.working
           /\ stats' = pool.stats
           /\ attempts' = Settle(attempts, "request_error", IF p # NoProxy THEN "failure" ELSE "none")
    /\ out' = Append(out, ProxyResponse(500, "Request failed"))
    /\ rpc' = "yielded"
    /\ depth' = depth - 1
    /\ UNCHANGED <<cfgVars, redirect_count, followed, raised>>
    /\ UNCHANGED NotReq

\* any other exception while the request is in flight
Unexpected ==
    /\ rpc = "await"
    /\ UnexpectedError("unexpected")
    /\ UNCHANGED <<cfgVars, redirect_count, followed, raised>>
    /\ UNCHANGED NotReq

\* The caller took the response and left its `async for`: the generator,
\* suspended at its yield, is closed (or resumed to exhaustion) and every
\* frame leaves its `async with` block.
GeneratorClosed ==
    /\ rpc = "yielded"
    /\ rpc' = "done"
    /\ depth' = 0
    /\ UNCHANGED <<working, stats, cfgVars, redirect_count, followed, attempts, out, raised>>
    /\ UNCHANGED NotReq

\* the caller has consumed the generator; the next request may come
NextRequest ==
    /\ rpc = "done"
    /\ rpc' = "idle"
    /\ depth' = 0
    /\ redirect_count' = 0
    /\ followed' = 0
    /\ attempts' = <<>>
    /\ out' = <<>>
    /\ raised' = FALSE
    /\ UNCHANGED <<working, stats, cfgVars>>
    /\ UNCHANGED NotReq

NextReq ==
    \/ StartEmptyUrl
    \/ StartNoHost
    \/ Start
    \/ Response
    \/ RedirectFollow
    \/ RedirectRefused
    \/ Timeout
    \/ RequestError
    \/ Unexpected
    \/ GeneratorClosed
    \/ NextRequest

SpecReq == InitReq /\ [][NextReq]_vars

-----------------------------------------------------------------------------
(* VideoStreamer: the range parser, the response framing, the generator *)

Min(a, b) == IF a < b THEN a ELSE b

\* the client's Range header: absent (None or ''), a string the pattern
\* bytes=(\d+)-(\d*) does not match, or bytes=<start>-<end> (end = -1: empty)
RangeHeaders ==
    {NoRange, [kind |-> "garbage", start |-> 0, end |-> -1]}
    \cup {[kind |-> "range", start |-> a, end |-> b] : a \in 0..(MaxFile + 1), b \in -1..(MaxFile + 1)}

\* `0, file_size - 1 if file_size > 0 else 0`
WholeFile(fs) == <<0, IF fs > 0 THEN fs - 1 ELSE 0>>

\* `(end - start) > self.config.max_range_size`
ExceedsMaxRange(start, end, maxr) == (end - start) > maxr

\* VideoStreamer._parse_range_header(range_header, file_size) -> (start, end)
ParseRangeHeader(h, fs, maxr) ==
    IF h.kind # "range" THEN WholeFile(fs)
    ELSE
    LET start0 == h.start
        end0 == IF h.end # -1 THEN h.end ELSE (IF fs > 0 THEN fs - 1 ELSE 0)
        start1 == IF fs > 0 /\ start0 < 0 THEN 0 ELSE start0
        past == fs > 0 /\ start1 >= fs
        start2 == IF past THEN fs - 1 ELSE start1
        end2 == IF past THEN fs - 1 ELSE end0
        end3 == IF fs > 0 /\ end2 >= fs THEN fs - 1 ELSE end2
        swap == fs > 0 /\ start2 > end3
        start4 == IF swap THEN end3 ELSE start2
        end4 == IF swap THEN start2 ELSE end3
        capped == start4 + maxr - 1
        end5 == IF fs > 0 /\ ExceedsMaxRange(start4, end4, maxr)
                THEN (IF capped >= fs THEN fs - 1 ELSE capped)
                ELSE end4
    IN  <<start4, end5>>

\* stream_video: `if range_header or start_byte > 0 or
\*                   (file_size > 0 and end_byte < file_size - 1)`
RangeRequested(h, start, end, fs) ==
    h.kind # "absent" \/ start > 0 \/ (fs > 0 /\ end < fs - 1)

\* stream_video: the Range header sent to the source (<<>>: none;
\* <<start, -1>>: 'bytes=start-')
OutboundRange(rr, start, end, fs) ==
    IF ~rr THEN <<>>
    ELSE IF fs > 0 THEN <<start, end>> ELSE <<start, -1>>

\* _prepare_response_headers: Content-Length (-1: not set)
ResponseContentLength(rr, start, end, fs) ==
    IF rr /\ fs > 0 THEN end - start + 1
    ELSE IF ~rr /\ fs > 0 THEN fs
    ELSE -1

\* a response that never carries a Content-Range
ResponseContentRangeNever(rr, start, end, fs) == <<>>

\* _prepare_response_headers: Content-Range (<<>>: not set)
ResponseContentRange(rr, start, end, fs) ==
    IF rr /\ fs > 0 THEN <<start, end, fs>> ELSE <<>>

\* stream_video: everything it computes before returning the StreamingResponse
StreamVideoResponse(h, fs, maxr) ==
    LET r == ParseRangeHeader(h, fs, maxr)
        rr == RangeRequested(h, r[1], r[2], fs)
    IN  [start_byte |-> r[1], end_byte |-> r[2], range_requested |-> rr,
         out_range |-> OutboundRange(rr, r[1], r[2], fs),
         status |-> IF rr THEN 206 ELSE 200,
         content_length |-> ResponseContentLength(rr, r[1], r[2], fs),
         content_range |-> ResponseContentRange(rr, r[1], r[2], fs)]

\* the source's Content-Range: <<>> absent, <<-1>> not of the form
\* 'bytes a-b/n', <<a, b>> otherwise
UpstreamContentRanges ==
    {<<>>, <<-1>>} \cup {<<a, b>> : a \in 0..(MaxBody - 1), b \in 0..(MaxBody - 1)}

\* VideoStreamer._get_expected_bytes(content_range, content_length); the
\* Content-Length is -1 when absent ('unknown')
GetExpectedBytes(cr, cl) ==
    IF cr # <<>>
    THEN (IF Len(cr) = 2 THEN cr[2] - cr[1] + 1 ELSE 0)
    ELSE IF cl # -1 THEN cl ELSE 0

\* `if expected_bytes > 0 and bytes_streamed >= expected_bytes`
ReachedExpected(expected, streamed) == expected > 0 /\ streamed >= expected

-----------------------------------------------------------------------------
(* SpecStream: one stream_video call and its generator *)

InitStream ==
    /\ \E w \in {<<>>, <<"p1">>} : working = w /\ stats = StartupStats(w)
    /\ use_proxy = TRUE
    /\ max_redirects = 5
    /\ max_range_size \in 1..MaxRangeCfg
    /\ stream_chunk_size \in 1..MaxChunkCfg
    /\ ReqIdle
    /\ StreamIdle
    /\ HandlerIdle
    /\ ProbeIdle
    /\ CodecIdle
    /\ RouterIdle
    /\ DispatchIdle
    /\ StartupIdle
    /\ AttemptIdle
    /\ PoolTasksIdle

\* the statuses a source answers the streaming GET with
UpstreamStatuses == {200, 206, 404, 416, 500}

\* a generator that gives up on 404 only
RefusedOnly404(st) == st = 404

\* `status_code == 404`, `== 416`, `>= 400`: the generator returns at once
Refused(st) == st = 404 \/ st = 416 \/ st >= 400

\* a generator that ends without leaving its `async with` blocks
GenEndClientLeftOpen(how, m, pool) ==
    /\ gen' = [gen EXCEPT !.mark = m, !.ended = how]
    /\ working' = pool.working
    /\ stats' = pool.stats
    /\ spc' = "done"

\* the generator ends: both `async with` blocks are left
GenEnd(how, m, pool) ==
    /\ gen' = [gen EXCEPT !.mark = m, !.client_open = FALSE, !.ended = how]
    /\ working' = pool.working
    /\ stats' = pool.stats
    /\ spc' = "done"

SamePool == [working |-> working, stats |-> stats]

\* stream_video(target_url, request_headers, range_header), the probe having
\* returned file_size (0: unknown)
StreamVideo ==
    /\ spc = "idle"
    /\ \E h \in RangeHeaders, fs \in 0..MaxFile :
        /\ sreq' = [range_header |-> h, file_size |-> fs]
        /\ sresp' = StreamVideoResponse(h, fs, max_range_size)
    /\ spc' = "headers"
    /\ UNCHANGED <<working, stats, cfgVars, upstream, gen>>
    /\ UNCHANGED NotStream

\* _create_stream_generator starts: proxy selected, client opened, GET sent
GenStart ==
    /\ spc = "headers"
    /\ \E p \in get_proxy(use_proxy, working) :
        gen' = [NoGen EXCEPT !.proxy = p, !.client_open = TRUE]
    /\ spc' = "await"
    /\ UNCHANGED <<working, stats, cfgVars, sreq, sresp, upstream>>
    /\ UNCHANGED NotStream

\* the source answers 404, 416 or another status >= 400: return, nothing emitted
UpstreamRefuses ==
    /\ spc = "await"
    /\ \E st \in UpstreamStatuses :
        /\ Refused(st)
        /\ upstream' = [NoUpstream EXCEPT !.status = st]
    /\ GenEnd("upstream_status", gen.mark, SamePool)
    /\ UNCHANGED <<cfgVars, sreq, sresp>>
    /\ UNCHANGED NotStream

\* the source answers 2xx with any Content-Range / Content-Length and a body
\* of `body` bytes (not more than a Content-Length it declared)
UpstreamAnswers ==
    /\ spc = "await"
    /\ \E st \in UpstreamStatuses, cr \in UpstreamContentRanges,
          cl \in -1..MaxBody, body \in 0..MaxBody :
        /\ ~Refused(st)
        /\ cl # -1 => body <= cl
        /\ upstream' = [status |-> st, truncated |-> (cl # -1 /\ body < cl)]
        /\ gen' = [gen EXCEPT !.expected_bytes = GetExpectedBytes(cr, cl),
                              !.remaining = body]
    /\ spc' = "body"
    /\ UNCHANGED <<working, stats, cfgVars, sreq, sresp>>
    /\ UNCHANGED NotStream

\* one turn of `async for chunk in response.aiter_bytes(chunk_size)`: the
\* chunk is counted and yielded; the loop breaks once expected_bytes is reached
Chunk ==
    /\ spc = "body"
    /\ gen.remaining > 0
    /\ LET n == Min(stream_chunk_size, gen.remaining)
           streamed == gen.bytes_streamed + n
           p == gen.proxy
       IN  IF ReachedExpected(gen.expected_bytes, streamed)
           THEN /\ p \in DOMAIN stats => stats[p].success < MaxSuccess
                /\ gen' = [gen EXCEPT !.bytes_streamed = streamed,
                                      !.remaining = gen.remaining - n,
                                      !.mark = IF p # NoProxy THEN "success" ELSE gen.mark,
                                      !.client_open = FALSE,
                                      !.ended = "complete"]
                /\ working' = mark_proxy_success(working, stats, p).working
                /\ stats' = mark_proxy_success(working, stats, p).stats
                /\ spc' = "done"
           ELSE /\ gen' = [gen EXCEPT !.bytes_streamed = streamed,
                                      !.remaining = gen.remaining - n]
                /\ UNCHANGED <<working, stats, spc>>
    /\ UNCHANGED <<cfgVars, sreq, sresp, upstream>>
    /\ UNCHANGED NotStream

\* the body is exhausted: the loop ends and the proxy is marked successful; a
\* body shorter than the declared Content-Length is a transport error
BodyEnd ==
    /\ spc = "body"
    /\ gen.remaining = 0
    /\ LET p == gen.proxy
       IN  IF upstream.truncated
           THEN GenEnd("error", IF p # NoProxy THEN "failure" ELSE gen.mark,
                       mark_proxy_failure(working, stats, p))
           ELSE /\ p \in DOMAIN stats => stats[p].success < MaxSuccess
                /\ GenEnd("complete", IF p # NoProxy THEN "success" ELSE gen.mark,
                          mark_proxy_success(working, stats, p))
    /\ UNCHANGED <<cfgVars, sreq, sresp, upstream>>
    /\ UNCHANGED NotStream

\* `except Exception`: a transport error before or while the body is read
StreamError ==
    /\ spc \in {"await", "body"}
    /\ LET p == gen.proxy
       IN  GenEnd("error", IF p # NoProxy THEN "failure" ELSE gen.mark,
                  mark_proxy_failure(working, stats, p))
    /\ UNCHANGED <<cfgVars, sreq, sresp, upstream>>
    /\ UNCHANGED NotStream

\* `except asyncio.CancelledError`: the client went away
StreamCancelled ==
    /\ spc \in {"await", "body"}
    /\ GenEnd("cancelled", gen.mark, SamePool)
    /\ UNCHANGED <<cfgVars, sreq, sresp, upstream>>
    /\ UNCHANGED NotStream

NextStreamStep ==
    \/ StreamVideo
    \/ GenStart
    \/ UpstreamRefuses
    \/ UpstreamAnswers
    \/ Chunk
    \/ BodyEnd
    \/ StreamError
    \/ StreamCancelled

SpecStream == InitStream /\ [][NextStreamStep]_vars

-----------------------------------------------------------------------------
(* SpecHandler: one handle_request call *)

\* The '/'-separated parts a path or a decoded block is made of.  "param"
\* introduces a header pair, "Range=b" and "Foo=1" are key=value parts,
\* "https:" is a scheme, "" is the part between two adjacent slashes and "h"
\* is any other text (a host name, a path piece).
Parts == {"param", "Range=b", "Foo=1", "https:", "", "h"}
KeyValueParts == {"Range=b", "Foo=1"}

\* key_value.split('=', 1)
KeyOf(part) == IF part = "Range=b" THEN "Range" ELSE "Foo"
ValueOf(part) == IF part = "Range=b" THEN "b" ELSE "1"

\* a string as the sequence of its parts; the empty string is <<"">>
Texts == UNION {[1..n -> Parts] : n \in 1..MaxTextLen}
EmptyText == <<"">>

\* the segments after the encoded block: handle_request has dropped the
\* empty ones
Extras == UNION {[1..n -> Parts \ {""}] : n \in 0..MaxExtra}

EncodedHandlers == {"enc", "enc1", "enc2", "enc3"}

\* blocks that carry two header pairs and nothing else
TwoPairBlocks == {<<"param", a, "param", b>> : a, b \in KeyValueParts}

\* what an encoded block decodes to
BlockTexts == Texts \cup TwoPairBlocks

\* The paths a client sends.  An encoded path names its block by what
\* base64-decoding it gives: nothing usable, or a text.
InboundPaths ==
    {[kind |-> "literal", block |-> "none", text |-> t, extra |-> <<>>] : t \in Texts}
    \cup {[kind |-> k, block |-> "missing", text |-> EmptyText, extra |-> <<>>] :
            k \in EncodedHandlers}
    \cup {[kind |-> k, block |-> b, text |-> EmptyText, extra |-> e] :
            k \in EncodedHandlers, b \in {"bad_base64", "bad_utf8"}, e \in Extras}
    \cup {[kind |-> k, block |-> "text", text |-> t, extra |-> e] :
            k \in EncodedHandlers, t \in BlockTexts, e \in Extras}

EmptyDict == [k \in {} |-> ""]
DictSet(d, key, value) ==
    [k \in DOMAIN d \cup {key} |-> IF k = key THEN value ELSE d[k]]

\* The request_headers handle_request is called with: none, or a Range and
\* an Accept header of the client.
InboundHeaders == {EmptyDict, [Range |-> "a", Accept |-> "x"]}

\* one call of handle_request: the path and the request headers
Inbound(path, headers) ==
    [kind |-> path.kind, block |-> path.block, text |-> path.text,
     extra |-> path.extra, headers |-> headers]

\* [s for s in path.strip('/').split('/') if s]
Segments(text) == SelectSeq(text, LAMBDA part : part # "")

\* the loop of parse_encoded_data from index i (1-based), n parts consumed
RECURSIVE ParseLoop(_, _, _, _)
ParseLoop(parts, i, n, params) ==
    IF i > Len(parts)
    THEN [params |-> params, url |-> SubSeq(parts, n + 1, Len(parts))]
    ELSE IF parts[i] = "param" /\ i + 1 <= Len(parts) /\ parts[i + 1] \in KeyValueParts
         THEN ParseLoop(parts, i + 2, i + 1,
                        DictSet(params, KeyOf(parts[i + 1]), ValueOf(parts[i + 1])))
         ELSE ParseLoop(parts, i + 1, n, params)

parse_encoded_data(text) ==
    IF text = EmptyText
    THEN [params |-> EmptyDict, url |-> <<>>]
    ELSE ParseLoop(text, 1, 0, EmptyDict)

\* URL_PATTERN.search: the first "https://" followed by one character or more
UrlMatches(parts) ==
    {i \in 1..Len(parts) :
        /\ parts[i] = "https:"
        /\ i + 2 <= Len(parts)
        /\ parts[i + 1] = ""
        /\ (parts[i + 2] # "" \/ i + 3 <= Len(parts))}

FirstOf(S) == CHOOSE i \in S : \A j \in S : i <= j

\* urlparse(normalize_url(url)).netloc for a url without a URL_PATTERN match
NormalizedNetloc(parts) ==
    IF Len(parts) >= 2 /\ parts[1] = "" /\ parts[2] = ""
    THEN \* protocol-relative: 'https:' + url
         IF Len(parts) >= 3 THEN parts[3] ELSE ""
    ELSE IF parts[1] = "https:"
    THEN IF Len(parts) >= 2 /\ parts[2] # ""
         THEN parts[2]                       \* "https:/h" becomes "https://h"
         ELSE IF Len(parts) = 3
              THEN ""                        \* "https://"
              ELSE "https:"                  \* "https:", "https:/" get 'https://' in front
    ELSE parts[1]                            \* 'https://' + url

\* build_url(segments, query_params), segments joined by '/'
build_url(parts) ==
    IF parts = <<>>
    THEN [error |-> "no_segments", netloc |-> ""]
    ELSE IF UrlMatches(parts) # {}
    THEN LET nl == parts[FirstOf(UrlMatches(parts)) + 2]
         IN  [error |-> IF nl = "" THEN "no_hostname" ELSE "none", netloc |-> nl]
    ELSE IF parts = EmptyText
    THEN [error |-> "empty_url", netloc |-> ""]
    ELSE LET nl == NormalizedNetloc(parts)
         IN  [error |-> IF nl = "" THEN "no_hostname" ELSE "none", netloc |-> nl]

\* the keys _handle_encoded_request copies from the decoded block
OverlayKeys ==
    {"User-Agent", "Origin", "Referer", "Cookie", "Content-Type", "Accept",
     "x-csrf-token", "Sec-Fetch-Dest", "Sec-Fetch-Mode", "Sec-Fetch-Site",
     "Authorization", "Range"}

\* an overlay that copies every decoded parameter
OverlayEveryParam(headers, params) ==
    [k \in DOMAIN headers \cup DOMAIN params |->
        IF k \in DOMAIN params THEN params[k] ELSE headers[k]]

Overlay(headers, params) ==
    [k \in DOMAIN headers \cup (DOMAIN params \cap OverlayKeys) |->
        IF k \in DOMAIN params \cap OverlayKeys THEN params[k] ELSE headers[k]]

Decoded(e, nl, ps, hs, tl) ==
    [error |-> e, netloc |-> nl, params |-> ps, headers |-> hs, tail |-> tl]

\* _handle_encoded_request up to the call of process_content
DecodeEncoded(path) ==
    IF path.block = "missing"
    THEN Decoded("not_enough_segments", "", EmptyDict, EmptyDict, <<>>)
    ELSE IF path.block \in {"bad_base64", "bad_utf8"}
    THEN Decoded(path.block, "", EmptyDict, EmptyDict, <<>>)
    ELSE LET parsed == parse_encoded_data(path.text)
             segs == IF path.kind = "enc2" THEN parsed.url ELSE path.extra
             built == build_url(segs)
         IN  IF segs = <<>>
             THEN Decoded("no_url", "", parsed.params, EmptyDict, parsed.url)
             ELSE IF built.error # "none"
             THEN Decoded(built.error, "", parsed.params, EmptyDict, parsed.url)
             ELSE Decoded("none", built.netloc, parsed.params,
                          Overlay(path.headers, parsed.params), parsed.url)

\* _handle_direct_request up to the call of process_content
DecodeDirect(path) ==
    LET built == build_url(path.text)
    IN  Decoded(built.error, built.netloc, EmptyDict,
                IF built.error = "none" THEN path.headers ELSE EmptyDict, <<>>)

\* the path has no segment at all: handle_request answers before its try block
EmptyPath(path) ==
    path.kind = "literal" /\ Segments(path.text) = <<>>

\* what the `except Exception` clause of handle_request returns
InternalServerError == [kind |-> "error", status |-> 500]

InitHandler ==
    /\ working = <<>>
    /\ stats = StartupStats(<<>>)
    /\ use_proxy = FALSE
    /\ max_redirects = 5
    /\ max_range_size = 1
    /\ stream_chunk_size = 1
    /\ ReqIdle
    /\ StreamIdle
    /\ PoolTasksIdle
    /\ HandlerIdle
    /\ ProbeIdle
    /\ CodecIdle
    /\ RouterIdle
    /\ DispatchIdle
    /\ StartupIdle
    /\ AttemptIdle

\* handle_request(path, ...) up to its first await, or to its return when
\* the path does not decode
HandleRequest ==
    /\ hpc = "idle"
    /\ \E p \in InboundPaths, hs \in InboundHeaders :
      LET path == Inbound(p, hs)
      IN
        /\ hreq' = path
        /\ IF EmptyPath(path)
           THEN /\ hdec' = Decoded("empty_path", "", EmptyDict, EmptyDict, <<>>)
                /\ hres' = [kind |-> "error", status |-> 400]
                /\ hpc' = "done"
           ELSE LET d == IF path.kind = "literal"
                         THEN DecodeDirect(path) ELSE DecodeEncoded(path)
                IN  /\ hdec' = d
                    /\ IF d.error # "none"
                       THEN hres' = InternalServerError /\ hpc' = "done"
                       ELSE hres' = hres /\ hpc' = "dispatch"
    /\ UNCHANGED NotHandler

\* process_content returned a StreamingResponse
DispatchStreaming ==
    /\ hpc = "dispatch"
    /\ hres' = [kind |-> "stream", status |-> 200]
    /\ hpc' = "done"
    /\ UNCHANGED <<hreq, hdec>>
    /\ UNCHANGED NotHandler

\* process_content returned a ProxyResponse: its status is handed on
DispatchProxyResponse ==
    /\ hpc = "dispatch"
    /\ \E st \in {200, 404} :
        hres' = [kind |-> "proxied", status |-> st]
    /\ hpc' = "done"
    /\ UNCHANGED <<hreq, hdec>>
    /\ UNCHANGED NotHandler

\* process_content raised HTTPException: handle_request raises it again
DispatchHTTPException ==
    /\ hpc = "dispatch"
    /\ hres' = [kind |-> "raised", status |-> 500]
    /\ hpc' = "done"
    /\ UNCHANGED <<hreq, hdec>>
    /\ UNCHANGED NotHandler

\* process_content raised any other exception
DispatchException ==
    /\ hpc = "dispatch"
    /\ hres' = InternalServerError
    /\ hpc' = "done"
    /\ UNCHANGED <<hreq, hdec>>
    /\ UNCHANGED NotHandler

NextHandler ==
    \/ HandleRequest
    \/ DispatchStreaming
    \/ DispatchProxyResponse
    \/ DispatchHTTPException
    \/ DispatchException

SpecHandler == InitHandler /\ [][NextHandler]_vars

-----------------------------------------------------------------------------
(* SpecProbe: one get_content_info call *)

\* the strategies in the order get_content_info tries them
HEAD == 0
Strategies == <<"HEAD", "GET_Range 0-0", "GET_Range 0-999", "GET_SIMPLE">>
LastStrategy == Len(Strategies) - 1

\* what a source answers a probe with
ProbeStatuses == {200, 206, 404}
ContentLengthHeaders == {"", "abc", "0", "5"}          \* "": no such header
ContentRangeHeaders == {"", "bytes 0-0/5", "none"}     \* "": no such header

\* int(response.headers.get('content-length')), 0 when it does not parse
ParseContentLength(cl) ==
    IF cl = "5" THEN 5 ELSE 0

\* group(3) of the Content-Range pattern, 0 without a match
ParseContentRangeTotal(cr) ==
    IF cr = "bytes 0-0/5" THEN 5 ELSE 0

\* content_length as _try_head_request computes it
HeadContentLength(st, cl, cr) ==
    IF cl # "" THEN ParseContentLength(cl) ELSE 0

\* content_length as _try_get_requests computes it
GetContentLength(st, cl, cr) ==
    IF st = 206 /\ cr # ""
    THEN ParseContentRangeTotal(cr)
    ELSE IF st = 200 /\ cl # ""
    THEN ParseContentLength(cl)
    ELSE 0

ContentInfo(m, st, n) == [method_used |-> m, status_code |-> st, content_length |-> n]

\* the head_info that ends the probe at once
HeadWins(st, n) == n > 0

InitProbe ==
    /\ \E w \in {<<>>, <<"p1">>, <<"p1", "p2">>} : working = w /\ stats = StartupStats(w)
    /\ use_proxy = TRUE
    /\ max_redirects = 5
    /\ max_range_size = 1
    /\ stream_chunk_size = 1
    /\ ReqIdle
    /\ StreamIdle
    /\ HandlerIdle
    /\ ProbeIdle
    /\ CodecIdle
    /\ RouterIdle
    /\ DispatchIdle
    /\ StartupIdle
    /\ AttemptIdle
    /\ PoolTasksIdle

\* strategy k starts on the pool w: proxy selected, client opened, request sent
BeginStrategy(k, w) ==
    /\ pstrat' = k
    /\ \E p \in get_proxy(use_proxy, w) : pclient' = [proxy |-> p, open |-> TRUE]
    /\ ppc' = "await"
    /\ pres' = pres

\* get_content_info returns info; the `async with` block has been left
ProbeReturn(info) ==
    /\ pres' = info
    /\ pclient' = [pclient EXCEPT !.open = FALSE]
    /\ ppc' = "done"
    /\ pstrat' = pstrat

Tried(outcome, st, n, m) ==
    Append(plog, [strategy |-> pstrat, proxy |-> pclient.proxy, outcome |-> outcome,
                  status |-> st, length |-> n, mark |-> m])

\* get_content_info(url, headers, use_head) up to its first await
ProbeCall ==
    /\ ppc = "idle"
    /\ \E uh \in BOOLEAN :
        /\ preq' = [use_head |-> uh]
        /\ BeginStrategy(IF uh THEN HEAD ELSE 1, working)
    /\ UNCHANGED <<working, stats, cfgVars, plog>>
    /\ UNCHANGED NotProbe

\* the source answers the strategy in flight
ProbeResponse ==
    /\ ppc = "await"
    /\ \E st \in ProbeStatuses, cl \in ContentLengthHeaders, cr \in ContentRangeHeaders :
        LET p == pclient.proxy
            n == IF pstrat = HEAD
                 THEN HeadContentLength(st, cl, cr) ELSE GetContentLength(st, cl, cr)
            pool == mark_proxy_success(working, stats, p)
        IN  /\ working' = pool.working
            /\ stats' = pool.stats
            /\ plog' = Tried("response", st, n, IF p # NoProxy THEN "success" ELSE "none")
            /\ IF pstrat = HEAD /\ ~HeadWins(st, n)
               THEN BeginStrategy(1, pool.working)
               ELSE ProbeReturn(ContentInfo(Strategies[pstrat + 1], st, n))
    /\ UNCHANGED <<cfgVars, preq>>
    /\ UNCHANGED NotProbe

\* the strategy in flight raises (connection error, timeout, ...)
ProbeError ==
    /\ ppc = "await"
    /\ LET p == pclient.proxy
           pool == IF pstrat = HEAD
                   THEN [working |-> working, stats |-> stats]
                   ELSE mark_proxy_failure(working, stats, p)
       IN  /\ working' = pool.working
           /\ stats' = pool.stats
           /\ plog' = Tried("error", 0, 0,
                            IF pstrat # HEAD /\ p # NoProxy THEN "failure" ELSE "none")
           /\ IF pstrat < LastStrategy
              THEN BeginStrategy(pstrat + 1, pool.working)
              ELSE ProbeReturn(ContentInfo("GET_ALL_FAILED", 0, 0))
    /\ UNCHANGED <<cfgVars, preq>>
    /\ UNCHANGED NotProbe

NextProbe ==
    \/ ProbeCall
    \/ ProbeResponse
    \/ ProbeError

SpecProbe == InitProbe /\ [][NextProbe]_vars

-----------------------------------------------------------------------------
(* SpecCodec: a (params, url) pair is written as 'param/k=v/.../url',       *)
(* base64-encoded as encode_base64_url does, and decoded again as           *)
(* _handle_encoded_request does (decode_base64_url, parse_encoded_data).    *)

\* the UTF-8 bytes of a part
PartBytes(part) ==
    IF part = "param" THEN <<112, 97, 114, 97, 109>>
    ELSE IF part = "Range=b" THEN <<82, 97, 110, 103, 101, 61, 98>>
    ELSE IF part = "Foo=1" THEN <<70, 111, 111, 61, 49>>
    ELSE IF part = "https:" THEN <<104, 116, 116, 112, 115, 58>>
    ELSE IF part = "h" THEN <<104>>
    ELSE <<>>

Slash == 47                      \* ord('/')

\* '/'.join(parts), as bytes
RECURSIVE JoinBytes(_)
JoinBytes(parts) ==
    IF Len(parts) = 1 THEN PartBytes(parts[1])
    ELSE PartBytes(parts[1]) \o <<Slash>> \o JoinBytes(Tail(parts))

\* the part a byte string is, "?" if it is none of Parts
PartOf(bytes) ==
    IF \E part \in Parts : PartBytes(part) = bytes
    THEN CHOOSE part \in Parts : PartBytes(part) = bytes
    ELSE "?"

\* s.split('/') of a byte string, each piece named by its part
RECURSIVE SplitBytes(_, _)
SplitBytes(bytes, piece) ==
    IF bytes = <<>> THEN <<PartOf(piece)>>
    ELSE IF Head(bytes) = Slash
    THEN <<PartOf(piece)>> \o SplitBytes(Tail(bytes), <<>>)
    ELSE SplitBytes(Tail(bytes), Append(piece, Head(bytes)))

\* Characters of an encoded string: 0..63 are the characters of the standard
\* base64 alphabet by value (62 '+', 63 '/'), then '-', '_' and '='.
Plus == 62
SlashChar == 63
Minus == 64
Underscore == 65
Pad == 66

\* base64.b64encode: three bytes give four characters, '=' fills the last group
RECURSIVE B64Encode(_)
B64Encode(bytes) ==
    IF bytes = <<>> THEN <<>>
    ELSE IF Len(bytes) = 1
    THEN <<bytes[1] \div 4, (bytes[1] % 4) * 16, Pad, Pad>>
    ELSE IF Len(bytes) = 2
    THEN <<bytes[1] \div 4, ((bytes[1] % 4) * 16) + (bytes[2] \div 16),
           (bytes[2] % 16) * 4, Pad>>
    ELSE <<bytes[1] \div 4, ((bytes[1] % 4) * 16) + (bytes[2] \div 16),
           ((bytes[2] % 16) * 4) + (bytes[3] \div 64), bytes[3] % 64>>
         \o B64Encode(SubSeq(bytes, 4, Len(bytes)))

\* str.replace(a, b)
Replace(chars, a, b) == [i \in 1..Len(chars) |-> IF chars[i] = a THEN b ELSE chars[i]]

\* str.rstrip('=')
RECURSIVE RStripPad(_)
RStripPad(chars) ==
    IF chars # <<>> /\ chars[Len(chars)] = Pad
    THEN RStripPad(SubSeq(chars, 1, Len(chars) - 1))
    ELSE chars

\* encode_base64_url(original_str)
encode_base64_url(bytes) ==
    RStripPad(Replace(Replace(B64Encode(bytes), Plus, Minus), SlashChar, Underscore))

\* `'=' * (4 - missing_padding)` appended when len % 4 is not 0
AddPadding(chars) ==
    IF Len(chars) % 4 = 0 THEN chars
    ELSE chars \o [i \in 1..(4 - (Len(chars) % 4)) |-> Pad]

\* the bytes of the groups of four characters of a padded string
RECURSIVE B64Groups(_)
B64Groups(chars) ==
    IF chars = <<>> THEN <<>>
    ELSE LET a == chars[1]
             b == chars[2]
             c == chars[3]
             d == chars[4]
             rest == B64Groups(SubSeq(chars, 5, Len(chars)))
         IN  IF c = Pad
             THEN <<(a * 4) + (b \div 16)>>
             ELSE IF d = Pad
             THEN <<(a * 4) + (b \div 16), ((b % 16) * 16) + (c \div 4)>>
             ELSE <<(a * 4) + (b \div 16), ((b % 16) * 16) + (c \div 4), ((c % 4) * 64) + d>> \o rest

\* base64.b64decode accepts the string: only alphabet characters, padding
\* at the end only and never three '=' in a group
B64Valid(chars) ==
    /\ Len(chars) % 4 = 0
    /\ \A i \in 1..Len(chars) :
        \/ chars[i] \in 0..63
        \/ chars[i] = Pad /\ i >= Len(chars) - 1
                          /\ (i = Len(chars) - 1 => chars[Len(chars)] = Pad)

\* decode_base64_url(encoded_str): the decoded bytes, or an error
decode_base64_url(chars) ==
    LET std == AddPadding(Replace(Replace(chars, Minus, Plus), Underscore, SlashChar))
    IN  IF ~B64Valid(std)
        THEN [error |-> "bad_base64", bytes |-> <<>>]
        ELSE IF \E i \in 1..Len(B64Groups(std)) : B64Groups(std)[i] > 127
        THEN [error |-> "bad_utf8", bytes |-> <<>>]
        ELSE [error |-> "none", bytes |-> B64Groups(std)]

\* header pairs a client sends in the block: keys of the allow-list
CodecParams == {<<>>, <<"Range=b">>}
\* target URLs: they begin with a scheme or a host
CodecUrls == {u \in Texts : u[1] \in {"https:", "h"}}

\* 'param/k=v/.../url'
RECURSIVE ParamPairs(_)
ParamPairs(kvs) ==
    IF kvs = <<>> THEN <<>> ELSE <<"param", Head(kvs)>> \o ParamPairs(Tail(kvs))

RECURSIVE ParamsDict(_)
ParamsDict(kvs) ==
    IF kvs = <<>> THEN EmptyDict
    ELSE DictSet(ParamsDict(SubSeq(kvs, 1, Len(kvs) - 1)),
                 KeyOf(kvs[Len(kvs)]), ValueOf(kvs[Len(kvs)]))

InitCodec ==
    /\ working = <<>>
    /\ stats = StartupStats(<<>>)
    /\ use_proxy = FALSE
    /\ max_redirects = 5
    /\ max_range_size = 1
    /\ stream_chunk_size = 1
    /\ ReqIdle
    /\ StreamIdle
    /\ HandlerIdle
    /\ ProbeIdle
    /\ CodecIdle
    /\ RouterIdle
    /\ DispatchIdle
    /\ StartupIdle
    /\ AttemptIdle
    /\ PoolTasksIdle

\* the client builds the block for (params, url)
Encode ==
    /\ cpc = "idle"
    /\ \E kvs \in CodecParams, u \in CodecUrls :
        /\ cin' = [params |-> kvs, url |-> u]
        /\ cenc' = encode_base64_url(JoinBytes(ParamPairs(kvs) \o u))
    /\ cpc' = "encoded"
    /\ cout' = cout
    /\ UNCHANGED NotCodec

\* _handle_encoded_request decodes the block and parses the decoded data
Decode ==
    /\ cpc = "encoded"
    /\ LET dec == decode_base64_url(cenc)
           parsed == parse_encoded_data(SplitBytes(dec.bytes, <<>>))
       IN  cout' = IF dec.error # "none"
                   THEN [error |-> dec.error, params |-> EmptyDict, url |-> <<>>]
                   ELSE [error |-> "none", params |-> parsed.params, url |-> parsed.url]
    /\ cpc' = "decoded"
    /\ UNCHANGED <<cin, cenc>>
    /\ UNCHANGED NotCodec

NextCodec ==
    \/ Encode
    \/ Decode

SpecCodec == InitCodec /\ [][NextCodec]_vars

-----------------------------------------------------------------------------
(* SpecRouter: one inbound request through the catch-all route *)

\* paths the route returns for at once, and all the others
RouterPaths == {"service", "proxied"}

\* methods=[...] of the route
RouterMethods == {"GET", "POST", "PUT", "DELETE", "PATCH", "HEAD", "OPTIONS"}

\* `request.method in ["POST", "PUT", "DELETE"]`
ReadsBody(method) == method \in {"POST", "PUT", "DELETE"}

\* the content types the body is read by
BodyContentTypes == {"form", "multipart", "json", "other"}

\* body sizes of inbound requests
BodySizes == 0..MaxRequestBody

\* what handle_request returns: (body, status, content type)
HandlerReturns ==
    {[kind |-> "stream", status |-> 200]}
    \cup {[kind |-> "error", status |-> st] : st \in {400, 500}}
    \cup {[kind |-> "proxied", status |-> st] : st \in {200, 404}}

\* the response of the route to what handle_request returned: a
\* StreamingResponse as it is, everything else with the returned status
RouteResponse(result) == [status |-> result.status, handled |-> TRUE]

InitRouter ==
    /\ working = <<>>
    /\ stats = StartupStats(<<>>)
    /\ use_proxy = FALSE
    /\ max_redirects = 5
    /\ max_range_size = 1
    /\ stream_chunk_size = 1
    /\ ReqIdle
    /\ StreamIdle
    /\ HandlerIdle
    /\ ProbeIdle
    /\ CodecIdle
    /\ DispatchIdle
    /\ StartupIdle
    /\ AttemptIdle
    /\ NoInbound
    /\ max_request_size \in 1..MaxRequestCfg
    /\ PoolTasksIdle

\* proxy_request up to its first await: service paths return at once, the
\* body is read for POST, PUT and DELETE only
ProxyRequest ==
    /\ tpc = "idle"
    /\ \E path \in RouterPaths, method \in RouterMethods,
          ct \in BodyContentTypes, size \in BodySizes :
        /\ treq' = [path |-> path, method |-> method, content_type |-> ct,
                    body |-> size]
        /\ IF path = "service"
           THEN tpc' = "done" /\ tres' = [status |-> 200, handled |-> FALSE]
           ELSE /\ tpc' = IF ReadsBody(method) THEN "body" ELSE "handler"
                /\ tres' = tres
    /\ UNCHANGED max_request_size
    /\ UNCHANGED NotRouter

\* the body was read and decoded
BodyRead ==
    /\ tpc = "body"
    /\ tpc' = "handler"
    /\ UNCHANGED <<treq, tres, max_request_size>>
    /\ UNCHANGED NotRouter

\* reading or decoding the body raised
BodyReadFails ==
    /\ tpc = "body"
    /\ tres' = [status |-> 400, handled |-> FALSE]
    /\ tpc' = "done"
    /\ UNCHANGED <<treq, max_request_size>>
    /\ UNCHANGED NotRouter

\* handle_request returned
HandlerReturned ==
    /\ tpc = "handler"
    /\ \E result \in HandlerReturns : tres' = RouteResponse(result)
    /\ tpc' = "done"
    /\ UNCHANGED <<treq, max_request_size>>
    /\ UNCHANGED NotRouter

\* handle_request raised: an HTTPException (the streamer raises it with
\* status_code 500) answers with its status code, any other exception with 500
HandlerRaised ==
    /\ tpc = "handler"
    /\ tres' = [status |-> 500, handled |-> TRUE]
    /\ tpc' = "done"
    /\ UNCHANGED <<treq, max_request_size>>
    /\ UNCHANGED NotRouter

NextRouter ==
    \/ ProxyRequest
    \/ BodyRead
    \/ BodyReadFails
    \/ HandlerReturned
    \/ HandlerRaised

SpecRouter == InitRouter /\ [][NextRouter]_vars

-----------------------------------------------------------------------------
(* SpecDispatch: one process_content call of the content dispatcher *)

\* methods process_content is called with
DispatchMethods == {"GET", "get", "POST", "HEAD"}

\* method.upper()
Upper(method) == IF method = "get" THEN "GET" ELSE method

\* a dispatcher that probes whatever the method
IsGetAlways(method) == TRUE

\* `method.upper() == 'GET'`
IsGet(method) == Upper(method) = "GET"

\* content types of a probed target, by what the dispatcher tests them for
ProbedContentTypes == {"m3u8", "video", "octet", "other"}

\* what _content_info gives: False (the probe raised, reported an error or
\* a status other than 200 and 206), or the content info
ContentInfos ==
    {[ok |-> FALSE, content_type |-> "other", big_ranged |-> FALSE]}
    \cup {[ok |-> TRUE, content_type |-> ct, big_ranged |-> b] :
            ct \in ProbedContentTypes, b \in BOOLEAN}

\* _is_m3u8_content: ContentInfoResponse has no `content`, the type decides
IsM3u8Content(info) == info.content_type = "m3u8"

\* _is_video_content(target_url, content_info)
IsVideoContent(video_url, info) ==
    /\ video_url
    /\ \/ info.content_type = "video"
       \/ info.content_type = "octet"
       \/ info.big_ranged

\* the component that serves a GET once the target was probed
Chosen(video_url, info) ==
    IF ~info.ok THEN "request"
    ELSE IF IsM3u8Content(info) THEN "m3u8"
    ELSE IF IsVideoContent(video_url, info) THEN "stream"
    ELSE "request"

InitDispatch ==
    /\ working = <<>>
    /\ stats = StartupStats(<<>>)
    /\ use_proxy = FALSE
    /\ max_redirects = 5
    /\ max_range_size = 1
    /\ stream_chunk_size = 1
    /\ ReqIdle
    /\ StreamIdle
    /\ HandlerIdle
    /\ ProbeIdle
    /\ CodecIdle
    /\ RouterIdle
    /\ DispatchIdle
    /\ StartupIdle
    /\ AttemptIdle
    /\ PoolTasksIdle

\* process_content up to its first await: the probe for GET, the request
\* processor for every other method
ProcessContent ==
    /\ dpc = "idle"
    /\ \E method \in DispatchMethods, video_url \in BOOLEAN :
        /\ dreq' = [method |-> method, video_url |-> video_url]
        /\ IF IsGet(method)
           THEN dpc' = "probe" /\ dcalls' = <<"probe">>
           ELSE dpc' = "request" /\ dcalls' = <<"request">>
    /\ UNCHANGED <<dinfo, dres>>
    /\ UNCHANGED NotDispatch

\* _content_info returned: the manifest rewriter, the streamer or the
\* request processor is called
Probed ==
    /\ dpc = "probe"
    /\ \E info \in ContentInfos :
        /\ dinfo' = info
        /\ dpc' = Chosen(dreq.video_url, info)
        /\ dcalls' = Append(dcalls, Chosen(dreq.video_url, info))
    /\ UNCHANGED <<dreq, dres>>
    /\ UNCHANGED NotDispatch

\* the component called returned (the request processor: yielded its first
\* result), and process_content returns that result
ComponentReturned ==
    /\ dpc \in {"m3u8", "stream", "request"}
    /\ dres' = [kind |-> "returned", from |-> dpc]
    /\ dpc' = "done"
    /\ UNCHANGED <<dreq, dinfo, dcalls>>
    /\ UNCHANGED NotDispatch

\* the component called raised: process_content does not catch it
ComponentRaised ==
    /\ dpc \in {"m3u8", "stream", "request"}
    /\ dres' = [kind |-> "raised", from |-> dpc]
    /\ dpc' = "done"
    /\ UNCHANGED <<dreq, dinfo, dcalls>>
    /\ UNCHANGED NotDispatch

NextDispatch ==
    \/ ProcessContent
    \/ Probed
    \/ ComponentReturned
    \/ ComponentRaised

SpecDispatch == InitDispatch /\ [][NextDispatch]_vars

-----------------------------------------------------------------------------
(* SpecStartup: the pool is filled from the configured proxy list *)

\* An endpoint is the text <scheme>h:<port>; the scheme is "" when the
\* text has none, the port is kept as its decimal digits.
Schemes == {"", "http://", "socks5://"}
Ports == {<<8, 0, 8, 0>>, <<1, 0, 8, 0>>, <<9, 0, 5, 0>>, <<1, 0, 8, 0, 0>>}
Endpoints == [scheme : Schemes, port : Ports]

\* the configured lists: PROXY_LIST split on commas, entries stripped
ProxyLists == UNION {[1..n -> Endpoints] : n \in 0..MaxProxyList}

\* `':1080' in proxy`: the text after the colon begins with these digits
ContainsPort(endpoint, digits) ==
    /\ Len(endpoint.port) >= Len(digits)
    /\ SubSeq(endpoint.port, 1, Len(digits)) = digits

\* _normalize_proxy(proxy)
normalize_proxy(endpoint) ==
    IF endpoint.scheme # "" THEN endpoint
    ELSE IF ContainsPort(endpoint, <<1, 0, 8, 0>>) \/ ContainsPort(endpoint, <<9, 0, 5, 0>>)
    THEN [endpoint EXCEPT !.scheme = "socks5://"]
    ELSE [endpoint EXCEPT !.scheme = "http://"]

\* add_proxy(proxy) as one step: it awaits nothing
add_proxy(w, s, p) ==
    IF AlreadyWorking(w, p)
    THEN [working |-> w, stats |-> s]
    ELSE [working |-> WorkingAppend(w, p), stats |-> StatsInit(s, p)]

InitStartup ==
    /\ working = <<>>
    /\ stats = StartupStats(<<>>)
    /\ use_proxy \in BOOLEAN
    /\ max_redirects = 5
    /\ max_range_size = 1
    /\ stream_chunk_size = 1
    /\ ReqIdle
    /\ StreamIdle
    /\ HandlerIdle
    /\ ProbeIdle
    /\ CodecIdle
    /\ RouterIdle
    /\ DispatchIdle
    /\ AttemptIdle
    /\ PoolTasksIdle
    /\ upc = "idle"
    /\ proxy_list \in ProxyLists
    /\ pending = <<>>
    /\ validated = <<>>
    /\ tested = <<>>

\* startup(): `if use_proxy and proxy_list:` validate_proxies is called
Startup ==
    /\ upc = "idle"
    /\ IF use_proxy /\ proxy_list # <<>>
       THEN upc' = "validating" /\ pending' = proxy_list
       ELSE upc' = "started" /\ pending' = pending
    /\ UNCHANGED <<proxy_list, validated, tested, working, stats, cfgVars>>
    /\ UNCHANGED NotStartup

\* validate_proxies: test_proxy(proxy) makes its client for the normalized
\* endpoint; a proxy that answers is appended as it was given
TestProxy ==
    /\ upc = "validating"
    /\ pending # <<>>
    /\ tested' = Append(tested, normalize_proxy(Head(pending)))
    /\ \E answers \in BOOLEAN :
        validated' = IF answers THEN Append(validated, Head(pending)) ELSE validated
    /\ pending' = Tail(pending)
    /\ UNCHANGED <<upc, proxy_list, working, stats, cfgVars>>
    /\ UNCHANGED NotStartup

\* validate_proxies returned the working proxies
Validated ==
    /\ upc = "validating"
    /\ pending = <<>>
    /\ upc' = "adding"
    /\ pending' = validated
    /\ UNCHANGED <<proxy_list, validated, tested, working, stats, cfgVars>>
    /\ UNCHANGED NotStartup

\* `for proxy in working_proxies: await add_proxy(proxy)`
AddValidated ==
    /\ upc = "adding"
    /\ pending # <<>>
    /\ LET added == add_proxy(working, stats, Head(pending))
       IN  working' = added.working /\ stats' = added.stats
    /\ pending' = Tail(pending)
    /\ UNCHANGED <<upc, proxy_list, validated, tested, cfgVars>>
    /\ UNCHANGED NotStartup

\* startup() returns
Started ==
    /\ upc = "adding"
    /\ pending = <<>>
    /\ upc' = "started"
    /\ UNCHANGED <<proxy_list, pending, validated, tested, working, stats, cfgVars>>
    /\ UNCHANGED NotStartup

NextStartup ==
    \/ Startup
    \/ TestProxy
    \/ Validated
    \/ AddValidated
    \/ Started

SpecStartup == InitStartup /\ [][NextStartup]_vars

-----------------------------------------------------------------------------
(* SpecAttempt: one upstream attempt and the reports it makes to the pool. *)
(* The four places that select a proxy share one shape: the proxy is       *)
(* selected inside `try`, the client is used inside `async with`, success  *)
(* is reported inside the `async with` block and failure in `except`.      *)

\* the HEAD strategy and a GET strategy of the probe, the stream generator,
\* the generic request
Components == {"head", "get", "stream", "request"}

\* `except Exception` reports the failure of the proxy; the HEAD strategy
\* has no such call
ReportsFailure(component) == component # "head"

\* mark_success / mark_failure for the proxy of the attempt: `if proxy:`
Report(what) ==
    LET p == aatt.proxy
        pool == IF what = "success" THEN mark_proxy_success(working, stats, p)
                ELSE mark_proxy_failure(working, stats, p)
    IN  /\ areports' = IF p # NoProxy THEN Append(areports, what) ELSE areports
        /\ working' = IF p # NoProxy THEN pool.working ELSE working
        /\ stats' = IF p # NoProxy THEN pool.stats ELSE stats

NoReport == UNCHANGED <<areports, working, stats>>

\* an exception reaches the `except Exception` clause of the component
Excepted ==
    IF ReportsFailure(aatt.component) THEN Report("failure") ELSE NoReport

InitAttempt ==
    /\ \E w \in StartupPools : working = w /\ stats = StartupStats(w)
    /\ use_proxy \in BOOLEAN
    /\ max_redirects = 5
    /\ max_range_size = 1
    /\ stream_chunk_size = 1
    /\ ReqIdle
    /\ StreamIdle
    /\ HandlerIdle
    /\ ProbeIdle
    /\ CodecIdle
    /\ RouterIdle
    /\ DispatchIdle
    /\ StartupIdle
    /\ AttemptIdle
    /\ PoolTasksIdle

\* the proxy is selected, the client is opened and the request is sent
AttemptStart ==
    /\ apc = "idle"
    /\ \E c \in Components, p \in get_proxy(use_proxy, working) :
        aatt' = [component |-> c, proxy |-> p]
    /\ apc' = "await"
    /\ NoReport
    /\ UNCHANGED cfgVars
    /\ UNCHANGED NotAttempt

\* the request raises before a response is there (for the generic request:
\* anything but a timeout)
AttemptError ==
    /\ apc = "await"
    /\ Excepted
    /\ apc' = "done"
    /\ UNCHANGED <<aatt, cfgVars>>
    /\ UNCHANGED NotAttempt

\* process_request, `except httpx.TimeoutException`: nothing is reported
AttemptTimeout ==
    /\ apc = "await"
    /\ aatt.component = "request"
    /\ NoReport
    /\ apc' = "done"
    /\ UNCHANGED <<aatt, cfgVars>>
    /\ UNCHANGED NotAttempt

\* The response is there.  The probe strategies report success and return;
\* the generic request reports success and yields unless the status is a
\* redirect; the stream generator returns for a status >= 400 and reads the
\* body otherwise.
AttemptResponse ==
    /\ apc = "await"
    /\ \E kind \in {"final", "redirect", "refused"} :
        /\ kind = "redirect" => aatt.component = "request"
        /\ kind = "refused" => aatt.component = "stream"
        /\ IF kind = "redirect" THEN apc' = "redirect" /\ NoReport
           ELSE IF kind = "refused" THEN apc' = "closing" /\ NoReport
           ELSE IF aatt.component = "stream" THEN apc' = "body" /\ NoReport
           ELSE /\ Report("success")
                /\ apc' = IF aatt.component = "request" THEN "yielded" ELSE "closing"
    /\ UNCHANGED <<aatt, cfgVars>>
    /\ UNCHANGED NotAttempt

\* _handle_redirect: it raises (too many redirects, no Location), or the
\* result of the nested process_request is yielded and nothing is reported
AttemptRedirect ==
    /\ apc = "redirect"
    /\ \E raises \in BOOLEAN :
        IF raises THEN Excepted /\ apc' = "done"
        ELSE NoReport /\ apc' = "yielded"
    /\ UNCHANGED <<aatt, cfgVars>>
    /\ UNCHANGED NotAttempt

\* the stream generator has yielded the last chunk: success is reported
AttemptBody ==
    /\ apc = "body"
    /\ Report("success")
    /\ apc' = "closing"
    /\ UNCHANGED <<aatt, cfgVars>>
    /\ UNCHANGED NotAttempt

\* reading the body raised
AttemptBodyError ==
    /\ apc = "body"
    /\ Excepted
    /\ apc' = "done"
    /\ UNCHANGED <<aatt, cfgVars>>
    /\ UNCHANGED NotAttempt

\* `except asyncio.CancelledError` of the stream generator
AttemptCancelled ==
    /\ apc = "body"
    /\ NoReport
    /\ apc' = "done"
    /\ UNCHANGED <<aatt, cfgVars>>
    /\ UNCHANGED NotAttempt

\* the caller of process_request closes the generator suspended at `yield`
AttemptYieldClosed ==
    /\ apc = "yielded"
    /\ NoReport
    /\ apc' = "closing"
    /\ UNCHANGED <<aatt, cfgVars>>
    /\ UNCHANGED NotAttempt

\* the `async with` blocks are left: response and client are closed
AttemptClosed ==
    /\ apc = "closing"
    /\ NoReport
    /\ apc' = "done"
    /\ UNCHANGED <<aatt, cfgVars>>
    /\ UNCHANGED NotAttempt

\* closing the response or the client raises (`finally: await
\* client.aclose()`); the exception leaves the `async with` block
AttemptCloseRaises ==
    /\ apc = "closing"
    /\ Excepted
    /\ apc' = "done"
    /\ UNCHANGED <<aatt, cfgVars>>
    /\ UNCHANGED NotAttempt

NextAttempt ==
    \/ AttemptStart
    \/ AttemptError
    \/ AttemptTimeout
    \/ AttemptResponse
    \/ AttemptRedirect
    \/ AttemptBody
    \/ AttemptBodyError
    \/ AttemptCancelled
    \/ AttemptYieldClosed
    \/ AttemptClosed
    \/ AttemptCloseRaises

SpecAttempt == InitAttempt /\ [][NextAttempt]_vars

-----------------------------------------------------------------------------
(* SpecClients: one operation that acquires upstream clients (a probe, a   *)
(* generic request or a stream) runs from start to end.                    *)

InitClients ==
    /\ \E w \in {<<>>, <<"p1">>} : working = w /\ stats = StartupStats(w)
    /\ use_proxy = TRUE
    /\ max_redirects = 1
    /\ max_range_size = 1
    /\ stream_chunk_size = 1
    /\ ReqIdle
    /\ StreamIdle
    /\ HandlerIdle
    /\ ProbeIdle
    /\ CodecIdle
    /\ RouterIdle
    /\ DispatchIdle
    /\ StartupIdle
    /\ AttemptIdle
    /\ PoolTasksIdle

\* the operation under way is the only one
OnlyProbe == rpc = "idle" /\ spc = "idle"
OnlyRequest == ppc = "idle" /\ spc = "idle"
OnlyStream == ppc = "idle" /\ rpc = "idle"

NextClients ==
    \/ OnlyProbe /\ ProbeCall
    \/ OnlyProbe /\ ProbeResponse
    \/ OnlyProbe /\ ProbeError
    \/ OnlyRequest /\ StartEmptyUrl
    \/ OnlyRequest /\ StartNoHost
    \/ OnlyRequest /\ Start
    \/ OnlyRequest /\ Response
    \/ OnlyRequest /\ RedirectFollow
    \/ OnlyRequest /\ RedirectRefused
    \/ OnlyRequest /\ Timeout
    \/ OnlyRequest /\ RequestError
    \/ OnlyRequest /\ Unexpected
    \/ OnlyRequest /\ GeneratorClosed
    \/ OnlyStream /\ StreamVideo
    \/ OnlyStream /\ GenStart
    \/ OnlyStream /\ UpstreamRefuses
    \/ OnlyStream /\ UpstreamAnswers
    \/ OnlyStream /\ Chunk
    \/ OnlyStream /\ BodyEnd
    \/ OnlyStream /\ StreamError
    \/ OnlyStream /\ StreamCancelled

SpecClients == InitClients /\ [][NextClients]_vars

-----------------------------------------------------------------------------
(* The proxy pool: claims C2, C3, C4 (checked under SpecPool) *)

\* The event loop is free: no task is inside a pool operation, so the pool is
\* in a state that another request can observe.
Quiescent == running = NoTask

C3_Atomic ==
    /\ \A t1, t2 \in Tasks : t1 # t2 => ~(pc[t1] # "idle" /\ pc[t2] # "idle")
    /\ \A t \in Tasks : ~err[t]
    /\ \A p \in DOMAIN stats :
          p \in Range(working) => stats[p].failures = calls[p].fails
    /\ Quiescent => \A p \in DOMAIN stats : stats[p].failures <= 5

\* C3 witness: a fail(p) that crossed the threshold is about to take p out of
\* the working list while the other task has a request in flight.
C3_Witness ==
    \E t \in Tasks :
        /\ pc[t] = "rm_list" /\ op[t] = "fail"
        /\ arg[t] \in DOMAIN stats /\ stats[arg[t]].failures = 6
        /\ \E u \in Tasks \ {t} : pc[u] = "idle"

-----------------------------------------------------------------------------
(* The generic request processor: claims C1, C7, C8, C9 (checked under SpecReq) *)

ErrorOutcomes == {"timeout", "request_error", "unexpected"}
HttpResponseOutcomes == {"response", "redirect", "too_many_redirects", "no_location"}

\* C1: every redirect re-enters the processor with redirect_count + 1 and the
\* request fails when the count reaches max_redirects, so one request follows
\* at most max_redirects redirects.
C1_RedirectsBounded == followed <= max_redirects

\* C7: the proxy selected for an attempt is marked failed on any error of
\* that attempt: transport timeout, other transport error, unexpected error.
C7_MarkedFailedOnAnyError ==
    \A i \in DOMAIN attempts :
        attempts[i].proxy # NoProxy /\ attempts[i].outcome \in ErrorOutcomes
            => attempts[i].mark = "failure"

\* C8: the proxy selected for an attempt is marked successful whenever the
\* upstream returned an HTTP response, whatever its status (4xx/5xx and the
\* 3xx that trigger redirect handling included).
C8_MarkedSuccessOnAnyResponse ==
    \A i \in DOMAIN attempts :
        attempts[i].proxy # NoProxy /\ attempts[i].outcome \in HttpResponseOutcomes
            => attempts[i].mark = "success"

\* C9: a failure of the selected proxy is not surfaced to the client: once
\* the request is over, an attempt that failed through a proxy was followed
\* by another attempt (a retry, or the direct connection), and the response
\* handed to the client is not that failure.
C9_ProxyFailureNotSurfaced ==
    rpc = "done" =>
        \A i \in DOMAIN attempts :
            attempts[i].proxy # NoProxy /\ attempts[i].outcome = "request_error"
                => /\ i < Len(attempts)
                   /\ out[Len(out)].error # "Request failed"

-----------------------------------------------------------------------------
(* The range-aware streamer: claims C5, C6 (checked under SpecStream) *)

\* C5: for every Range header value and every file_size the range the parser
\* returns has 0 <= start <= end and, when file_size > 0, end < file_size and
\* end - start + 1 <= max_range_size.
C5_ParsedRangeBounds ==
    spc # "idle" /\ sreq.range_header.kind # "absent" =>
        /\ 0 <= sresp.start_byte
        /\ sresp.start_byte <= sresp.end_byte
        /\ sreq.file_size > 0 =>
              /\ sresp.end_byte < sreq.file_size
              /\ sresp.end_byte - sresp.start_byte + 1 <= max_range_size

\* C6: in known-size range mode the advertised Content-Length is
\* end - start + 1 and the bytes written to the client are that many or
\* fewer, whatever the source sends.
C6_BytesWrittenBounded ==
    sresp.range_requested /\ sreq.file_size > 0 /\ spc \in {"await", "body", "done"} =>
        /\ sresp.content_length = sresp.end_byte - sresp.start_byte + 1
        /\ gen.bytes_streamed <= sresp.content_length

-----------------------------------------------------------------------------
(* The request handler: claim C10 (checked under SpecHandler) *)

DecodingErrors ==
    {"empty_path", "not_enough_segments", "bad_base64", "bad_utf8", "no_url",
     "no_segments", "empty_url", "no_hostname"}

\* C10: every decoding error of an inbound path (the path does not parse, the
\* base64 block does not decode, the decoded URL has no hostname) reaches
\* the request handler, which answers the client with status 400.
C10_DecodingErrorsAre400 ==
    hpc = "done" /\ hdec.error \in DecodingErrors =>
        hres.kind = "error" /\ hres.status = 400


-----------------------------------------------------------------------------
(* The content prober: claims C11, C12, C13 (checked under SpecProbe) *)

\* the strategies were tried one after the other, none skipped or repeated
StrictOrder ==
    /\ plog # <<>> => plog[1].strategy = (IF preq.use_head THEN HEAD ELSE 1)
    /\ \A i \in 1..(Len(plog) - 1) : plog[i + 1].strategy = plog[i].strategy + 1

\* C11: the strategies are tried in strict order and the probe returns the
\* result of the first one that yields a positive content_length; a strategy
\* answered without a positive content_length does not end the probe while
\* later strategies remain.
C11_FirstPositiveWins ==
    /\ StrictOrder
    /\ ppc = "done" =>
        /\ \A i \in 1..(Len(plog) - 1) : plog[i].length = 0
        /\ plog[Len(plog)].length > 0 \/ plog[Len(plog)].strategy = LastStrategy

\* C12: the probe returns with method HEAD only if the HEAD response had a
\* status in {200, 206} and a positive Content-Length.
C12_HeadReturnsOnlyOn2xx ==
    ppc = "done" /\ pres.method_used = "HEAD" =>
        /\ pres.status_code \in {200, 206}
        /\ pres.content_length > 0

\* C13: a strategy that ends in a network error has its proxy (if any) marked
\* failed, and the probe goes on to the next strategy; for every strategy.
C13_ErrorMarksProxyFailed ==
    \A i \in 1..Len(plog) :
        plog[i].outcome = "error" =>
            /\ plog[i].proxy # NoProxy => plog[i].mark = "failure"
            /\ ppc = "done" /\ i = Len(plog) => plog[i].strategy = LastStrategy


-----------------------------------------------------------------------------
(* The streamer's framing and error paths: claims C14..C17 (SpecStream) *)

\* C14: a client Range header that cannot be parsed is treated as absent: the
\* span is the whole file ([0,0] when the size is unknown), range mode is
\* off, no Range header goes upstream and the status is 200.
C14_UnparseableRangeIsAbsent ==
    spc # "idle" /\ sreq.range_header.kind = "garbage" =>
        /\ <<sresp.start_byte, sresp.end_byte>> = WholeFile(sreq.file_size)
        /\ ~sresp.range_requested
        /\ sresp.out_range = <<>>
        /\ sresp.status = 200

\* C15: in range mode with a known size the response is 206 with
\* Content-Range 'bytes start-end/file_size' and Content-Length
\* end - start + 1, start-end being the span sent upstream in Range.
C15_RangeModeFraming ==
    spc # "idle" /\ sresp.range_requested /\ sreq.file_size > 0 =>
        /\ sresp.status = 206
        /\ sresp.out_range # <<>>
        /\ sresp.content_range =
              <<sresp.out_range[1], sresp.out_range[2], sreq.file_size>>
        /\ sresp.content_length = sresp.out_range[2] - sresp.out_range[1] + 1

C15_Witness ==
    /\ spc = "headers"
    /\ sreq.file_size > 0
    /\ sreq.range_header.kind = "range"
    /\ sresp.range_requested
    /\ sresp.start_byte > 0
    /\ sresp.content_range = <<sresp.start_byte, sresp.end_byte, sreq.file_size>>

\* C16: when the source answers the streaming GET with 404, 416 or another
\* status of 400 and above, the stream ends with the upstream closed and no
\* body byte emitted.
C16_RefusedStreamIsEmpty ==
    upstream.status >= 400 =>
        /\ spc = "done"
        /\ gen.bytes_streamed = 0
        /\ ~gen.client_open

C16_Witness ==
    /\ upstream.status = 500
    /\ gen.ended = "upstream_status"
    /\ spc = "done"

\* C17: a transport error while streaming ends the stream, and the proxy
\* selected for it (if any) has been reported failed to the pool.
C17_StreamErrorMarksProxyFailed ==
    gen.ended = "error" =>
        /\ spc = "done"
        /\ gen.proxy # NoProxy =>
              /\ gen.mark = "failure"
              /\ gen.proxy \in DOMAIN stats
              /\ stats[gen.proxy].failures = 1

C17_Witness ==
    /\ gen.ended = "error"
    /\ gen.proxy = "p1"
    /\ gen.bytes_streamed > 0
    /\ stats["p1"].failures = 1

-----------------------------------------------------------------------------
(* Upstream clients: claim C18 (checked under SpecClients) *)

-----------------------------------------------------------------------------
(* The request processor's error mapping: claim C19 (checked under SpecReq) *)

\* the captured response the claim assigns to an attempt's outcome
CapturedFor(outcome) ==
    IF outcome = "timeout" THEN ProxyResponse(408, "Request timeout")
    ELSE IF outcome = "request_error" THEN ProxyResponse(500, "Request failed")
    ELSE ProxyResponse(500, "Unexpected error")

\* C19: a timeout is captured as 408 'Request timeout', another transport
\* error as 500 'Request failed', an unexpected error as 500 'Unexpected
\* error'; no error leaves the processor as an exception.
C19_ErrorsAreCaptured ==
    /\ ~raised
    /\ rpc \in {"yielded", "done"} /\ attempts # <<>>
         /\ attempts[Len(attempts)].outcome \in ErrorOutcomes =>
            /\ out # <<>>
            /\ out[Len(out)] = CapturedFor(attempts[Len(attempts)].outcome)

-----------------------------------------------------------------------------
(* The encoded-data parser: claim C20 (checked under SpecHandler) *)

\* The parse the claim describes, from part i on: 'param', 'key=value' pairs
\* are consumed while they lead the list; the rest is the URL-segment list.
RECURSIVE LeadingPairs(_, _, _)
LeadingPairs(parts, i, params) ==
    IF i + 1 <= Len(parts) /\ parts[i] = "param" /\ parts[i + 1] \in KeyValueParts
    THEN LeadingPairs(parts, i + 2,
                      DictSet(params, KeyOf(parts[i + 1]), ValueOf(parts[i + 1])))
    ELSE [params |-> params, url |-> SubSeq(parts, i, Len(parts))]

\* C20: the parser consumes 'param', 'key=value' pairs only while they lead
\* the '/'-separated tokens; from the first other token on, the whole tail is
\* the URL-segment list, and a pair inside it is not recorded as a parameter.
C20_OnlyLeadingPairsAreParams ==
    hpc # "idle" /\ hreq.block = "text" /\ hreq.text # EmptyText =>
        /\ hdec.params = LeadingPairs(hreq.text, 1, EmptyDict).params
        /\ hdec.tail = LeadingPairs(hreq.text, 1, EmptyDict).url

-----------------------------------------------------------------------------
(* The path encoding: claim C21 (checked under SpecCodec) *)

\* C21: for every (params, url) with param keys in the allow-list, decoding
\* the base64 of 'param/k=v/.../url' gives the same params and the same url.
C21_PathRoundTrip ==
    cpc = "decoded" =>
        /\ cout.error = "none"
        /\ cout.params = ParamsDict(cin.params)
        /\ cout.url = cin.url

-----------------------------------------------------------------------------
(* The header overlay: claim C22 (checked under SpecHandler) *)

\* the request is an encoded one that was decoded and handed to process_content
OverlayApplied ==
    /\ hpc \in {"dispatch", "done"}
    /\ hreq.kind \in EncodedHandlers
    /\ hdec.error = "none"

\* C22: of the parameters decoded from the path, only those named in the
\* allow-list are copied over the inbound request headers; every other
\* decoded parameter is discarded and every inbound header that is not
\* overlaid is left unchanged.
C22_HeaderOverlay ==
    OverlayApplied =>
        /\ DOMAIN hdec.headers =
                DOMAIN hreq.headers \cup (DOMAIN hdec.params \cap OverlayKeys)
        /\ \A k \in DOMAIN hdec.headers :
                hdec.headers[k] = IF k \in DOMAIN hdec.params /\ k \in OverlayKeys
                                  THEN hdec.params[k]
                                  ELSE hreq.headers[k]

\* an allow-listed parameter replaced an inbound header, another parameter
\* was discarded and another inbound header was kept
C22_Witness ==
    /\ OverlayApplied
    /\ DOMAIN hdec.params = {"Range", "Foo"}
    /\ DOMAIN hreq.headers = {"Range", "Accept"}
    /\ hdec.headers = [Range |-> "b", Accept |-> "x"]

-----------------------------------------------------------------------------
(* The body cap: claim C23 (checked under SpecRouter) *)

\* C23: every inbound request whose body is larger than max_request_size is
\* rejected with status 413, before the path is decoded or any upstream
\* request is made.
C23_OversizedBodyIs413 ==
    (tpc = "done" /\ treq.path = "proxied" /\ treq.body > max_request_size) =>
        /\ tres.status = 413
        /\ ~tres.handled

-----------------------------------------------------------------------------
(* The content dispatcher: claim C27 (checked under SpecDispatch) *)

\* C27: for every request whose method is not GET, the content dispatcher
\* calls the generic request processor and returns its result, without
\* probing the target and without invoking the streamer or the manifest
\* rewriter.
C27_NonGetGoesToRequestProcessor ==
    (dpc # "idle" /\ Upper(dreq.method) # "GET") =>
        /\ dcalls = <<"request">>
        /\ dpc \in {"request", "done"}
        /\ dpc = "done" => dres.from = "request"

\* a POST was answered by the request processor
C27_Witness ==
    /\ dpc = "done"
    /\ dreq.method = "POST"
    /\ dcalls = <<"request">>
    /\ dres = [kind |-> "returned", from |-> "request"]

-----------------------------------------------------------------------------
(* The pool operations: claims C25, C26, C30 (checked under SpecPool) *)

NoDuplicates ==
    \A i, j \in 1..Len(working) : working[i] = working[j] => i = j

\* C25: add(p) is idempotent.  The first add of an endpoint puts it in the
\* working set with stats {success 0, failures 0}; an add of an endpoint
\* that is already in the pool changes neither the working set (no
\* duplicate entry) nor any counter.
C25_AddIdempotent ==
    [][\A t \in Tasks :
          (op[t] = "add" /\ pc'[t] # pc[t]) =>
              /\ (arg[t] \in Range(working) /\ arg[t] \in DOMAIN stats) =>
                    working' = working /\ stats' = stats
              /\ (pc'[t] = "idle" /\ last'.value = "True") =>
                    /\ arg[t] \in Range(working')
                    /\ stats'[arg[t]] = [success |-> 0, failures |-> 0]
              /\ NoDuplicates']_vars

\* an add of an endpoint already in the pool, with a failure counted, returned
C25_Witness ==
    /\ Quiescent
    /\ last.op = "add" /\ last.arg \in Proxies /\ last.found /\ last.value = "False"
    /\ last.arg \in Range(working)
    /\ stats[last.arg].failures > 0

\* C26: pick() returns an endpoint that is in the working set at the moment
\* of the call, and nothing if the working set is empty; an endpoint that
\* was removed (explicitly or by its failures) and not added again is never
\* returned.
C26_PickFromWorking ==
    [][\A t \in Tasks :
          (pc[t] = "pick" /\ pc'[t] = "idle") =>
              /\ working = <<>> => last'.value = "None"
              /\ working # <<>> => last'.value \in Range(working)
              /\ \A p \in Proxies :
                    (calls[p].removed \/ calls[p].fails > 5) => last'.value # p]_vars

\* a pick returned p2 while p1 had been removed
C26_Witness ==
    /\ Quiescent
    /\ last.op = "pick" /\ last.value = "p2"
    /\ calls["p1"].removed /\ "p1" \notin Range(working)

-----------------------------------------------------------------------------
(* The endpoints of the pool: claim C24 (checked under SpecStartup) *)

\* the endpoint the configured text stands for: its scheme kept, and
\* without one 'socks5://' for port 1080 or 9050, 'http://' otherwise
Normalized(endpoint) ==
    IF endpoint.scheme # "" THEN endpoint
    ELSE IF endpoint.port \in {<<1, 0, 8, 0>>, <<9, 0, 5, 0>>}
    THEN [endpoint EXCEPT !.scheme = "socks5://"]
    ELSE [endpoint EXCEPT !.scheme = "http://"]

\* C24: every endpoint held in the proxy pool is normalized: it carries a
\* scheme, and an endpoint supplied without one got 'http://' prefixed
\* unless its port is 1080 or 9050, in which case 'socks5://' was prefixed.
C24_PoolEndpointsNormalized ==
    \A i \in 1..Len(working) :
        /\ working[i].scheme # ""
        /\ \E j \in 1..Len(proxy_list) : working[i] = Normalized(proxy_list[j])

-----------------------------------------------------------------------------
(* Reports to the pool: claim C29 (checked under SpecAttempt) *)

\* C29: for a single upstream attempt (one probe strategy, one stream, one
\* generic request), the proxy selected for the attempt is reported to the
\* pool at most once, and never as both succeeded and failed.
C29_ReportedAtMostOnce ==
    /\ Len(areports) <= 1
    /\ ~({"success", "failure"} \subseteq Range(areports))

-----------------------------------------------------------------------------
(* Responses of the request processor: claim C28 (checked under SpecReq) *)

\* C28: for every call of the generic request processor, whatever the
\* outcome, the caller receives exactly one response object: never zero and
\* never more than one.
C28_ExactlyOneResponse ==
    /\ Len(out) <= 1
    /\ rpc \in {"yielded", "done"} => Len(out) = 1

=============================================================================
